---- MODULE Spec2Model ----
(***************************************************************************)
(* Model of the translation-review utilities (utils.js): the diff path     *)
(* filter, the pattern compiler, the line locator, the nested-key lookup    *)
(* and the translation change extractor; and of the review run of          *)
(* ai-review.js that uses them (getReviewAndSendToGitHub).                  *)
(*                                                                          *)
(* A JavaScript string is a sequence of one-character strings.  A           *)
(* JavaScript value is a tagged record: Str(s), Null or Undefined.          *)
(* Regular expressions are data (a sequence of items) run by one            *)
(* backtracking matcher, so every regular expression of the source is       *)
(* written here item for item.                                              *)
(***************************************************************************)
EXTENDS Integers, Sequences, FiniteSets, TLC

VARIABLES
    pc,                  \* "ready" before the call, then the name of the call made
    diff,                \* argument of filterDiffByIgnoredFiles / parseTranslationChangesFromDiff
    englishTranslations, \* reference mapping argument
    input,               \* structured description the diff text was rendered from
    filtered,            \* value returned by filterDiffByIgnoredFiles
    changes,             \* array returned by parseTranslationChangesFromDiff
    text,                \* first argument of getLineNumber
    searchString,        \* second argument of getLineNumber / argument of convertToRegexPattern
    regexPattern,        \* string returned by convertToRegexPattern
    lineNumber,          \* outcome of getLineNumber
    nestedKey,           \* second argument of getNestedValue
    nestedValue,         \* value returned by getNestedValue
    ignoredLastIndex,    \* lastIndex of the module-level ignoredRegex object
    history,             \* the calls made so far: operation, arguments, result
    issues,              \* review.issues of the parsed review
    botComments,         \* comments of github-actions[bot] on the pull request
    pending,             \* delete requests in flight
    cleanupFailed,       \* a list or delete request of the cleanup was rejected
    requests,            \* create requests made so far, in order
    cursor               \* position of the comment loop in the grouped issues

vars == <<pc, diff, englishTranslations, input, filtered, changes,
          text, searchString, regexPattern, lineNumber, nestedKey, nestedValue,
          ignoredLastIndex, history, issues, botComments, pending, cleanupFailed,
          requests, cursor>>

\* the state of the module and of the review run
runVars == <<ignoredLastIndex, history, issues, botComments, pending, cleanupFailed,
             requests, cursor>>

\* a freshly loaded module, no review run under way
NoRun ==
    /\ ignoredLastIndex = 0
    /\ history = <<>>
    /\ issues = <<>>
    /\ botComments = [review |-> {}, issue |-> {}]
    /\ pending = {}
    /\ cleanupFailed = FALSE
    /\ requests = <<>>
    /\ cursor = 0

----------------------------------------------------------------------------
(* JavaScript values *)

Str(s) == [t |-> "string", s |-> s]
Null == [t |-> "null", s |-> <<>>]
Undefined == [t |-> "undefined", s |-> <<>>]

\* !v for a string, null or undefined
Falsy(v) == v.t # "string" \/ v.s = <<>>

RECURSIVE Concat(_)
Concat(ss) == IF ss = <<>> THEN <<>> ELSE Head(ss) \o Concat(Tail(ss))

\* String.prototype.slice(from, to) with 0-based, end-exclusive indices
Slice(s, from, to) == SubSeq(s, from + 1, to)

StartsWith(s, p) == Len(s) >= Len(p) /\ SubSeq(s, 1, Len(p)) = p
EndsWith(s, p) == Len(s) >= Len(p) /\ SubSeq(s, Len(s) - Len(p) + 1, Len(s)) = p

\* Array.prototype.join
RECURSIVE Join(_, _)
Join(ss, sep) ==
    IF ss = <<>> THEN <<>>
    ELSE IF Len(ss) = 1 THEN ss[1]
    ELSE ss[1] \o sep \o Join(Tail(ss), sep)

----------------------------------------------------------------------------
(* The regular expression engine (ECMAScript RegExp, without the u flag) *)

\* \s and the line terminators, restricted to the characters of the model
Whitespace == {" ", "\t", "\n", "\r"}
LineTerminators == {"\n", "\r"}

\* One character position: a set of characters (or its complement), with a
\* quantifier: min 1 / 0, many (unbounded) or not, greedy or lazy.
Atom(neg, cs) ==
    [k |-> "set", neg |-> neg, cs |-> cs, min |-> 1, many |-> FALSE, greedy |-> TRUE]
Lit(c) == Atom(FALSE, {c})
Lits(s) == <<[k |-> "str", s |-> s]>>       \* a run of literal characters
AnyChar == Atom(TRUE, LineTerminators)      \* .
Space == Atom(FALSE, Whitespace)            \* \s
Optional(a) == [a EXCEPT !.min = 0]         \* a?
OneOrMore(a) == [a EXCEPT !.many = TRUE]    \* a+
ZeroOrMore(a) == [a EXCEPT !.min = 0, !.many = TRUE]   \* a*
Lazy(a) == [a EXCEPT !.greedy = FALSE]      \* a+?  a*?
Bol == [k |-> "bol"]                        \* ^
Eol == [k |-> "eol"]                        \* $
Open(g) == [k |-> "open", g |-> g]          \* ( of capture group g
Close(g) == [k |-> "close", g |-> g]        \* ) of capture group g
Alt(alts) == [k |-> "alt", alts |-> alts]   \* x|y|... up to the end of the pattern or group

RegExp(items, groups, multiline) ==
    [items |-> items, groups |-> groups, multiline |-> multiline]

Accepts(a, c) == (c \in a.cs) # a.neg

\* the number of consecutive characters of s from pos that a accepts
RunLength(a, s, pos) ==
    LET stop == {p \in pos..Len(s) : ~Accepts(a, s[p])} IN
    IF stop = {} THEN Len(s) + 1 - pos
    ELSE (CHOOSE p \in stop : \A q \in stop : p <= q) - pos

MaxCount(a, s, pos) ==
    IF a.many THEN RunLength(a, s, pos)
    ELSE IF pos <= Len(s) /\ Accepts(a, s[pos]) THEN 1 ELSE 0

AtBol(s, pos, ml) == pos = 1 \/ (ml /\ s[pos - 1] \in LineTerminators)
AtEol(s, pos, ml) == pos = Len(s) + 1 \/ (ml /\ s[pos] \in LineTerminators)

NoMatch == [ok |-> FALSE, index |-> 0, end |-> 0, caps |-> <<>>]

\* Backtracking match of items i.. of re at position pos (1-based) of s.  The
\* success that comes first in the engine's priority order is returned: a
\* greedy quantifier prefers the longest count, a lazy one the shortest, an
\* alternation its leftmost alternative.
RECURSIVE MatchHere(_, _, _, _, _, _)
RECURSIVE TryAlts(_, _, _, _, _, _, _)
MatchHere(re, i, s, pos, caps, ml) ==
    IF i > Len(re) THEN [ok |-> TRUE, index |-> 0, end |-> pos, caps |-> caps]
    ELSE LET it == re[i] IN
         CASE it.k = "bol" ->
                IF AtBol(s, pos, ml) THEN MatchHere(re, i + 1, s, pos, caps, ml) ELSE NoMatch
           [] it.k = "eol" ->
                IF AtEol(s, pos, ml) THEN MatchHere(re, i + 1, s, pos, caps, ml) ELSE NoMatch
           [] it.k = "open" ->
                MatchHere(re, i + 1, s, pos, [caps EXCEPT ![it.g] = <<pos, pos>>], ml)
           [] it.k = "close" ->
                MatchHere(re, i + 1, s, pos, [caps EXCEPT ![it.g] = <<caps[it.g][1], pos>>], ml)
           [] it.k = "alt" -> TryAlts(re, i, s, pos, caps, ml, 1)
           [] it.k = "str" ->
                IF pos + Len(it.s) - 1 <= Len(s) /\ SubSeq(s, pos, pos + Len(it.s) - 1) = it.s
                THEN MatchHere(re, i + 1, s, pos + Len(it.s), caps, ml)
                ELSE NoMatch
           [] it.k = "set" ->
                LET n == MaxCount(it, s, pos) IN
                IF n < it.min THEN NoMatch
                ELSE IF n = it.min THEN MatchHere(re, i + 1, s, pos + n, caps, ml)
                ELSE LET tries == {[k |-> k, r |-> MatchHere(re, i + 1, s, pos + k, caps, ml)] :
                                      k \in it.min..n}
                         good == {x \in tries : x.r.ok}
                     IN IF good = {} THEN NoMatch
                        ELSE (CHOOSE x \in good :
                                \A y \in good : IF it.greedy THEN y.k <= x.k ELSE x.k <= y.k).r

TryAlts(re, i, s, pos, caps, ml, j) ==
    IF j > Len(re[i].alts) THEN NoMatch
    ELSE LET r == MatchHere(re[i].alts[j] \o SubSeq(re, i + 1, Len(re)), 1, s, pos, caps, ml) IN
         IF r.ok THEN r ELSE TryAlts(re, i, s, pos, caps, ml, j + 1)

\* RegExp.prototype.exec from position start (1-based): the leftmost match.
\* index and end are 1-based: the match is s[index .. end-1].
Exec(rx, s, start) ==
    LET tries == {[p |-> p,
                   r |-> MatchHere(rx.items, 1, s, p,
                                   [g \in 1..rx.groups |-> <<0, 0>>], rx.multiline)] :
                    p \in start..(Len(s) + 1)}
        good == {x \in tries : x.r.ok}
    IN IF good = {} THEN NoMatch
       ELSE LET first == CHOOSE x \in good : \A y \in good : x.p <= y.p
            IN [first.r EXCEPT !.index = first.p]

\* RegExp.prototype.test of a regular expression without the g flag
Test(rx, s) == Exec(rx, s, 1).ok

\* the text captured by group g of a successful match m on s
Group(m, s, g) == SubSeq(s, m.caps[g][1], m.caps[g][2] - 1)
Matched(m, s) == SubSeq(s, m.index, m.end - 1)

\* A replacement template is a sequence of parts: literal text, or the $n of a
\* replacement string.
TextPart(s) == [k |-> "text", s |-> s]
GroupPart(g) == [k |-> "group", g |-> g]

RECURSIVE Expand(_, _, _)
Expand(tmpl, m, s) ==
    IF tmpl = <<>> THEN <<>>
    ELSE (IF Head(tmpl).k = "group" THEN Group(m, s, Head(tmpl).g) ELSE Head(tmpl).s)
         \o Expand(Tail(tmpl), m, s)

\* String.prototype.replace with a g-flagged regular expression whose matches
\* are never empty
RECURSIVE ReplaceFrom(_, _, _, _)
ReplaceFrom(rx, s, pos, tmpl) ==
    LET m == Exec(rx, s, pos) IN
    IF ~m.ok THEN SubSeq(s, pos, Len(s))
    ELSE SubSeq(s, pos, m.index - 1) \o Expand(tmpl, m, s) \o ReplaceFrom(rx, s, m.end, tmpl)

ReplaceAll(rx, s, tmpl) == ReplaceFrom(rx, s, 1, tmpl)

\* String.prototype.split with a regular expression whose matches are never
\* empty and that has no capture group
RECURSIVE SplitFrom(_, _, _)
SplitFrom(rx, s, pos) ==
    LET m == Exec(rx, s, pos) IN
    IF ~m.ok THEN <<SubSeq(s, pos, Len(s))>>
    ELSE <<SubSeq(s, pos, m.index - 1)>> \o SplitFrom(rx, s, m.end)

Split(rx, s) == SplitFrom(rx, s, 1)

\* Array.prototype.filter(Boolean) on an array of strings
RECURSIVE FilterBoolean(_)
FilterBoolean(ss) ==
    IF ss = <<>> THEN <<>>
    ELSE (IF Head(ss) = <<>> THEN <<>> ELSE <<Head(ss)>>) \o FilterBoolean(Tail(ss))

\* new RegExp(source) for a source without groups, classes and alternation:
\* \s is the whitespace class, \n the newline, any other escaped character
\* of the model stands for itself (identity escape); an unescaped . is the
\* wildcard, ^ and $ are the anchors, and + * ? quantify the item before
\* them.  A source ending in a lone backslash is a SyntaxError.
EscapeItem(c) ==
    IF c = "s" THEN Space
    ELSE IF c = "n" THEN Lit("\n")
    ELSE IF c = "t" THEN Lit("\t")
    ELSE IF c = "r" THEN Lit("\r")
    ELSE Lit(c)

Quantify(items, q) ==
    LET n == Len(items) IN
    [items EXCEPT ![n] = IF q = "+" THEN OneOrMore(@)
                         ELSE IF q = "*" THEN ZeroOrMore(@)
                         ELSE Optional(@)]

RECURSIVE ParseItems(_, _, _)
ParseItems(src, i, acc) ==
    IF i > Len(src) THEN [ok |-> TRUE, items |-> acc]
    ELSE LET c == src[i] IN
         IF c = "\\"
         THEN IF i = Len(src) THEN [ok |-> FALSE, items |-> <<>>]
              ELSE ParseItems(src, i + 2, Append(acc, EscapeItem(src[i + 1])))
         ELSE IF c \in {"+", "*", "?"}
         THEN IF acc = <<>> \/ acc[Len(acc)].k # "set" \/ acc[Len(acc)].many
                 \/ acc[Len(acc)].min = 0
              THEN [ok |-> FALSE, items |-> <<>>]
              ELSE ParseItems(src, i + 1, Quantify(acc, c))
         ELSE IF c = "." THEN ParseItems(src, i + 1, Append(acc, AnyChar))
         ELSE IF c = "^" THEN ParseItems(src, i + 1, Append(acc, Bol))
         ELSE IF c = "$" THEN ParseItems(src, i + 1, Append(acc, Eol))
         ELSE ParseItems(src, i + 1, Append(acc, Lit(c)))

----------------------------------------------------------------------------
(* utils.js: the ignore policy *)

IGNORED_FILES ==
    << <<"p","a","c","k","a","g","e",".","j","s","o","n">>,
       <<"p","a","c","k","a","g","e","-","l","o","c","k",".","j","s","o","n">>,
       <<"y","a","r","n",".","l","o","c","k">> >>

\* new RegExp(`^(${IGNORED_FILES.join('|')})$|^node_modules/`): each name is
\* spliced into the source unescaped, so it is parsed as a pattern.
ignoredRegex ==
    RegExp(
      << Alt(<< <<Bol, Open(1),
                  Alt([i \in 1..Len(IGNORED_FILES) |->
                          ParseItems(IGNORED_FILES[i], 1, <<>>).items]),
                  Close(1), Eol>>,
                <<Bol>> \o Lits(<<"n","o","d","e","_","m","o","d","u","l","e","s","/">>) >>) >>,
      1, FALSE)

----------------------------------------------------------------------------
(* utils.js: filterDiffByIgnoredFiles *)

\* headerRegex without the optional quotes: /^diff --git a\/(.+?) b\/(.+?)$/gm
headerRegex_unquotedOnly ==
    RegExp(
      <<Bol>> \o Lits(<<"d","i","f","f"," ","-","-","g","i","t"," ">>)
        \o <<Lit("a"), Lit("/"),
             Open(1), Lazy(OneOrMore(AnyChar)), Close(1),
             Lit(" "), Lit("b"), Lit("/"),
             Open(2), Lazy(OneOrMore(AnyChar)), Close(2),
             Eol>>,
      2, TRUE)

\* /^diff --git "?a\/(.+?)"? "?b\/(.+?)"?$/gm
headerRegex ==
    RegExp(
      <<Bol>> \o Lits(<<"d","i","f","f"," ","-","-","g","i","t"," ">>)
        \o <<Optional(Lit("\"")), Lit("a"), Lit("/"),
             Open(1), Lazy(OneOrMore(AnyChar)), Close(1),
             Optional(Lit("\"")), Lit(" "), Optional(Lit("\"")), Lit("b"), Lit("/"),
             Open(2), Lazy(OneOrMore(AnyChar)), Close(2),
             Optional(Lit("\"")), Eol>>,
      2, TRUE)

\* /^"|"$/g
edgeQuoteRegex ==
    RegExp(<< Alt(<< <<Bol, Lit("\"")>>, <<Lit("\""), Eol>> >>) >>, 0, FALSE)

\* the while loop over headerRegex.exec(diff): index is 0-based as in the source
RECURSIVE headerMatches(_, _)
headerMatches(d, lastIndex) ==
    LET m == Exec(headerRegex, d, lastIndex + 1) IN
    IF ~m.ok THEN <<>>
    ELSE <<[index |-> m.index - 1,
            path |-> ReplaceAll(edgeQuoteRegex, Group(m, d, 2), <<>>)]>>
         \o headerMatches(d, m.end - 1)

\* keptSlices with every span running to the end of the text
RECURSIVE keptSlices_toEndOfText(_, _, _)
keptSlices_toEndOfText(d, matches, i) ==
    IF i > Len(matches) THEN <<>>
    ELSE (IF ~Test(ignoredRegex, matches[i].path) THEN Slice(d, matches[i].index, Len(d))
          ELSE <<>>)
         \o keptSlices_toEndOfText(d, matches, i + 1)

\* the for loop over matches, appending the kept slices
RECURSIVE keptSlices(_, _, _)
keptSlices(d, matches, i) ==
    IF i > Len(matches) THEN <<>>
    ELSE LET start == matches[i].index
             end == IF i + 1 <= Len(matches) THEN matches[i + 1].index ELSE Len(d)
         IN (IF ~Test(ignoredRegex, matches[i].path) THEN Slice(d, start, end) ELSE <<>>)
            \o keptSlices(d, matches, i + 1)

\* filterDiffByIgnoredFiles without the text before the first header
filterDiffByIgnoredFiles_noPreamble(d) ==
    IF Falsy(d) THEN d
    ELSE LET matches == headerMatches(d.s, 0) IN
         IF Len(matches) = 0 THEN d
         ELSE Str(keptSlices(d.s, matches, 1))

\* filterDiffByIgnoredFiles returning '' for every falsy input
filterDiffByIgnoredFiles_emptyForAbsent(d) ==
    IF Falsy(d) THEN Str(<<>>)
    ELSE LET matches == headerMatches(d.s, 0) IN
         IF Len(matches) = 0 THEN d
         ELSE Str((IF matches[1].index > 0 THEN Slice(d.s, 0, matches[1].index) ELSE <<>>)
                  \o keptSlices(d.s, matches, 1))

filterDiffByIgnoredFiles(d) ==
    IF Falsy(d) THEN d
    ELSE LET matches == headerMatches(d.s, 0) IN
         IF Len(matches) = 0 THEN d
         ELSE Str((IF matches[1].index > 0 THEN Slice(d.s, 0, matches[1].index) ELSE <<>>)
                  \o keptSlices(d.s, matches, 1))

----------------------------------------------------------------------------
(* utils.js: convertToRegexPattern and getLineNumber *)

\* the character class of /([.*+?^=!:${}()|[\]/-])/g
SpecialChars ==
    {".", "*", "+", "?", "^", "=", "!", ":", "$", "{", "}", "(", ")", "|", "[", "]", "/", "-"}

specialCharRegex == RegExp(<<Open(1), Atom(FALSE, SpecialChars), Close(1)>>, 1, FALSE)

\* /\s+/g
whitespaceRunRegex == RegExp(<<OneOrMore(Space)>>, 0, FALSE)

\* convertToRegexPattern with the two replacements in the other order
convertToRegexPattern_whitespaceFirst(s) ==
    ReplaceAll(specialCharRegex,
               ReplaceAll(whitespaceRunRegex, s, <<TextPart(<<"\\", "s", "+">>)>>),
               <<TextPart(<<"\\">>), GroupPart(1)>>)

\* .replace(<special>, '\\$1').replace(/\s+/g, '\\s+')
convertToRegexPattern(s) ==
    ReplaceAll(whitespaceRunRegex,
               ReplaceAll(specialCharRegex, s, <<TextPart(<<"\\">>), GroupPart(1)>>),
               <<TextPart(<<"\\", "s", "+">>)>>)

\* String.prototype.split with a one-character separator
RECURSIVE SplitAt(_, _, _)
SplitAt(s, c, pos) ==
    LET hits == {p \in pos..Len(s) : s[p] = c} IN
    IF hits = {} THEN <<SubSeq(s, pos, Len(s))>>
    ELSE LET p == CHOOSE h \in hits : \A q \in hits : h <= q
         IN <<SubSeq(s, pos, p - 1)>> \o SplitAt(s, c, p + 1)

SplitChar(s, c) == SplitAt(s, c, 1)

Number(n) == [t |-> "number", n |-> n]
Throw(e) == [t |-> "throw", e |-> e]

\* t and s are JavaScript values; the outcome is a number or a thrown error
getLineNumber(t, s) ==
    IF Falsy(t) \/ Falsy(s) THEN Number(-1)
    ELSE LET pattern == convertToRegexPattern(s.s)
             parsed == ParseItems(pattern, 1, <<>>)
         IN IF ~parsed.ok THEN Throw("SyntaxError")
            ELSE LET match == Exec(RegExp(parsed.items, 0, FALSE), t.s, 1) IN
                 IF ~match.ok THEN Number(-1)
                 ELSE LET textBeforeMatch == SubSeq(t.s, 1, match.index - 1)
                          startLine == Len(SplitChar(textBeforeMatch, "\n"))
                          matchedLineCount == Len(SplitChar(Matched(match, t.s), "\n"))
                      IN Number(startLine + matchedLineCount - 1)

----------------------------------------------------------------------------
(* utils.js: getNestedValue *)

\* An object is an ordered list of own entries [k |-> key, v |-> value]; its
\* prototype is Object.prototype, whose properties every lookup by name and
\* every `in` test also sees.
Obj(entries) == [t |-> "object", o |-> entries]
Entry(k, v) == [k |-> k, v |-> v]
ObjectPrototype == [t |-> "prototype"]
Function == [t |-> "function"]

\* inherited property names: the accessor __proto__ and, for the methods of
\* Object.prototype, constructor
ProtoName == <<"_","_","p","r","o","t","o","_","_">>
ConstructorName == <<"c","o","n","s","t","r","u","c","t","o","r">>

HasOwn(obj, key) == obj.t = "object" /\ \E i \in 1..Len(obj.o) : obj.o[i].k = key

\* key in obj
HasKey(obj, key) == HasOwn(obj, key) \/ key \in {ProtoName, ConstructorName}

\* obj[key]
Get(obj, key) ==
    IF HasOwn(obj, key)
    THEN obj.o[CHOOSE i \in 1..Len(obj.o) : obj.o[i].k = key].v
    ELSE IF key = ProtoName THEN (IF obj.t = "prototype" THEN Null ELSE ObjectPrototype)
    ELSE IF key = ConstructorName THEN Function
    ELSE Undefined

\* JsonEscape that escapes nothing
JsonEscape_none(c) == <<c>>

\* JSON.stringify of a string, null or an object of such values
JsonEscape(c) ==
    IF c = "\"" THEN <<"\\", "\"">>
    ELSE IF c = "\\" THEN <<"\\", "\\">>
    ELSE IF c = "\n" THEN <<"\\", "n">>
    ELSE IF c = "\t" THEN <<"\\", "t">>
    ELSE IF c = "\r" THEN <<"\\", "r">>
    ELSE <<c>>

JsonQuote(s) == <<"\"">> \o Concat([i \in 1..Len(s) |-> JsonEscape(s[i])]) \o <<"\"">>

RECURSIVE JsonText(_)
JsonText(v) ==
    IF v.t = "string" THEN JsonQuote(v.s)
    ELSE IF v.t = "null" THEN <<"n","u","l","l">>
    ELSE IF v.t = "prototype" THEN <<"{", "}">>
    ELSE <<"{">>
         \o Join([i \in 1..Len(v.o) |-> JsonQuote(v.o[i].k) \o <<":">> \o JsonText(v.o[i].v)],
                 <<",">>)
         \o <<"}">>

JSONstringify(v) == IF v.t \in {"undefined", "function"} THEN Undefined ELSE Str(JsonText(v))

\* the for loop over key.split('.')
RECURSIVE descend(_, _, _)
descend(current, parts, i) ==
    IF i > Len(parts)
    THEN IF current.t = "string" THEN current ELSE JSONstringify(current)
    ELSE IF current.t \in {"object", "prototype"} /\ HasKey(current, parts[i])
         THEN descend(Get(current, parts[i]), parts, i + 1)
         ELSE Undefined

\* getNestedValue with the dotted descent tried before the direct key
getNestedValue_dottedFirst(obj, key) ==
    IF obj.t \in {"null", "undefined"} THEN Undefined
    ELSE IF descend(obj, SplitChar(key, "."), 1) # Undefined
         THEN descend(obj, SplitChar(key, "."), 1)
         ELSE IF Get(obj, key) = Undefined THEN Undefined
         ELSE IF Get(obj, key).t = "string" THEN Get(obj, key)
         ELSE JSONstringify(Get(obj, key))

getNestedValue(obj, key) ==
    IF obj.t \in {"null", "undefined"} THEN Undefined
    ELSE IF Get(obj, key) # Undefined
         THEN IF Get(obj, key).t = "string" THEN Get(obj, key) ELSE JSONstringify(Get(obj, key))
         ELSE descend(obj, SplitChar(key, "."), 1)

----------------------------------------------------------------------------
(* utils.js: parseTranslationChangesFromDiff *)

\* /^diff --git/m
sectionSplitRegex == RegExp(<<Bol>> \o Lits(<<"d","i","f","f"," ","-","-","g","i","t">>), 0, TRUE)

\* /\s+"?b\/([^"\s]+\.json)"?\s*$/
fileMatchRegex ==
    RegExp(<<OneOrMore(Space), Optional(Lit("\"")), Lit("b"), Lit("/"),
             Open(1), OneOrMore(Atom(TRUE, {"\""} \cup Whitespace))>>
             \o Lits(<<".","j","s","o","n">>)
             \o <<Close(1), Optional(Lit("\"")), ZeroOrMore(Space), Eol>>,
           1, FALSE)

\* kvRegex with a lazy value group: /^\s*"([^"]+)":\s*"(.*?)"/
kvRegex_lazyValue ==
    RegExp(<<Bol, ZeroOrMore(Space), Lit("\""),
             Open(1), OneOrMore(Atom(TRUE, {"\""})), Close(1),
             Lit("\""), Lit(":"), ZeroOrMore(Space), Lit("\""),
             Open(2), Lazy(ZeroOrMore(AnyChar)), Close(2), Lit("\"")>>,
           2, FALSE)

\* /^\s*"([^"]+)":\s*"(.*)"/
kvRegex ==
    RegExp(<<Bol, ZeroOrMore(Space), Lit("\""),
             Open(1), OneOrMore(Atom(TRUE, {"\""})), Close(1),
             Lit("\""), Lit(":"), ZeroOrMore(Space), Lit("\""),
             Open(2), ZeroOrMore(AnyChar), Close(2), Lit("\"")>>,
           2, FALSE)

NoEnglishSource ==
    <<"(","n","o"," ","E","n","g","l","i","s","h"," ","s","o","u","r","c","e"," ",
      "f","o","u","n","d",")">>

\* lineChanges taking removed lines as well as added ones
lineChanges_anyMarker(filePath, line, english) ==
    IF (StartsWith(line, <<"+">>) \/ StartsWith(line, <<"-">>))
       /\ ~StartsWith(line, <<"+","+","+">>)
    THEN LET content == SubSeq(line, 2, Len(line))
             kvMatch == Exec(kvRegex, content, 1)
         IN IF kvMatch.ok
            THEN LET key == Group(kvMatch, content, 1)
                     value == Group(kvMatch, content, 2)
                     englishValue == getNestedValue(english, key)
                 IN <<[file |-> filePath,
                       key |-> key,
                       value |-> value,
                       englishValue |-> IF Falsy(englishValue) THEN NoEnglishSource
                                        ELSE englishValue.s,
                       line |-> content]>>
            ELSE <<>>
    ELSE <<>>

\* lineChanges with the matched text, not the whole content, as the line
lineChanges_matchAsLine(filePath, line, english) ==
    IF StartsWith(line, <<"+">>) /\ ~StartsWith(line, <<"+","+","+">>)
    THEN LET content == SubSeq(line, 2, Len(line))
             kvMatch == Exec(kvRegex, content, 1)
         IN IF kvMatch.ok
            THEN LET key == Group(kvMatch, content, 1)
                     value == Group(kvMatch, content, 2)
                     englishValue == getNestedValue(english, key)
                 IN <<[file |-> filePath,
                       key |-> key,
                       value |-> value,
                       englishValue |-> IF Falsy(englishValue) THEN NoEnglishSource
                                        ELSE englishValue.s,
                       line |-> Matched(kvMatch, content)]>>
            ELSE <<>>
    ELSE <<>>

\* the body of the inner for loop: the records one line contributes
lineChanges(filePath, line, english) ==
    IF StartsWith(line, <<"+">>) /\ ~StartsWith(line, <<"+","+","+">>)
    THEN LET content == SubSeq(line, 2, Len(line))
             kvMatch == Exec(kvRegex, content, 1)
         IN IF kvMatch.ok
            THEN LET key == Group(kvMatch, content, 1)
                     value == Group(kvMatch, content, 2)
                     englishValue == getNestedValue(english, key)
                 IN <<[file |-> filePath,
                       key |-> key,
                       value |-> value,
                       englishValue |-> IF Falsy(englishValue) THEN NoEnglishSource
                                        ELSE englishValue.s,
                       line |-> content]>>
            ELSE <<>>
    ELSE <<>>

\* sectionChanges without the test for the source file en.json
sectionChanges_noSourceSkip(section, english) ==
    LET firstLine == SplitChar(section, "\n")[1]
        fileMatch == Exec(fileMatchRegex, firstLine, 1)
    IN IF ~fileMatch.ok THEN <<>>
       ELSE LET filePath == Group(fileMatch, firstLine, 1) IN
            IF ~EndsWith(filePath, <<".","j","s","o","n">>)
            THEN <<>>
            ELSE LET lines == SplitChar(section, "\n") IN
                 Concat([i \in 1..Len(lines) |-> lineChanges(filePath, lines[i], english)])

\* the body of the outer for loop: the records one section contributes
sectionChanges(section, english) ==
    LET firstLine == SplitChar(section, "\n")[1]
        fileMatch == Exec(fileMatchRegex, firstLine, 1)
    IN IF ~fileMatch.ok THEN <<>>
       ELSE LET filePath == Group(fileMatch, firstLine, 1) IN
            IF ~EndsWith(filePath, <<".","j","s","o","n">>)
               \/ filePath = <<"e","n",".","j","s","o","n">>
            THEN <<>>
            ELSE LET lines == SplitChar(section, "\n") IN
                 Concat([i \in 1..Len(lines) |-> lineChanges(filePath, lines[i], english)])

Array(a) == [t |-> "array", a |-> a]

\* d and english are JavaScript values; the outcome is an array or a thrown
\* error (diff.split on null or undefined)
parseTranslationChangesFromDiff(d, english) ==
    IF d.t # "string" THEN Throw("TypeError")
    ELSE LET fileSections == FilterBoolean(Split(sectionSplitRegex, d.s)) IN
         Array(Concat([i \in 1..Len(fileSections) |-> sectionChanges(fileSections[i], english)]))

----------------------------------------------------------------------------
(* Diffs given to the filter: a preamble and sections, rendered to text *)

MaxSections == 2

HunkBody ==
    <<"@","@"," ","-","1"," ","+","1"," ","@","@","\n","-","o","l","d","\n","+","n","e","w","\n">>
BinaryBody ==
    <<"B","i","n","a","r","y"," ","f","i","l","e","s"," ","d","i","f","f","e","r","\n">>

Section(path, quoted, body) == [path |-> path, quoted |-> quoted, body |-> body]

FilterSections ==
    { Section(<<"s","r","c","/","a",".","t","s">>, FALSE, HunkBody),
      Section(<<"s","r","c","/","a",".","t","s">>, FALSE, <<>>),
      Section(<<"y","a","r","n",".","l","o","c","k">>, FALSE, HunkBody),
      Section(<<"y","a","r","n",".","l","o","c","k">>, TRUE, HunkBody),
      Section(<<"p","a","c","k","a","g","e",".","j","s","o","n">>, FALSE, HunkBody),
      Section(<<"p","a","c","k","a","g","e","-","l","o","c","k",".","j","s","o","n">>,
              FALSE, HunkBody),
      Section(<<"n","o","d","e","_","m","o","d","u","l","e","s","/","x",".","j","s">>,
              FALSE, HunkBody),
      Section(<<"m","y"," ","d","i","r","/","f",".","t","s">>, TRUE, HunkBody),
      Section(<<"a","s","s","e","t","s","/","i","c","o","n",".","p","n","g">>,
              FALSE, BinaryBody),
      Section(<<"i","o","s","/","P","o","d","f","i","l","e",".","l","o","c","k">>,
              FALSE, HunkBody),
      Section(<<"p","/","n","i","t","r","o","g","e","n","/","g","e","n","e","r","a","t","e","d",
                "/","F",".","t","s">>, FALSE, HunkBody) }

Preambles == { <<>>, <<"n","o","t","e","\n">> }

SeqsUpTo(S, n) == UNION { [1..k -> S] : k \in 0..n }

TextInput(pre, secs, nl) ==
    [kind |-> "text", preamble |-> pre, sections |-> secs, eofNewline |-> nl]
AbsentInput(kind) ==
    [kind |-> kind, preamble |-> <<>>, sections |-> <<>>, eofNewline |-> TRUE]

FilterInputs ==
    { TextInput(pre, secs, nl) :
        pre \in Preambles, secs \in SeqsUpTo(FilterSections, MaxSections), nl \in BOOLEAN }
    \cup { AbsentInput("null"), AbsentInput("undefined") }

\* diff --git a/<path> b/<path>, or diff --git "a/<path>" "b/<path>"
HeaderLine(sec) ==
    LET q == IF sec.quoted THEN <<"\"">> ELSE <<>> IN
    <<"d","i","f","f"," ","-","-","g","i","t"," ">>
      \o q \o <<"a","/">> \o sec.path \o q \o <<" ">> \o q \o <<"b","/">> \o sec.path \o q

SectionText(sec) == HeaderLine(sec) \o <<"\n">> \o sec.body

\* The spans of the rendered text: the text ends with or without a newline.
DropLastChar(s) == SubSeq(s, 1, Len(s) - 1)
Pieces(in) ==
    LET all == <<in.preamble>> \o [i \in 1..Len(in.sections) |-> SectionText(in.sections[i])]
        last == CHOOSE i \in 0..Len(all) :
                    /\ i > 0 => all[i] # <<>>
                    /\ \A j \in (i + 1)..Len(all) : all[j] = <<>>
                    /\ i = 0 => \A j \in 1..Len(all) : all[j] = <<>>
    IN IF in.eofNewline \/ last = 0 THEN all
       ELSE [all EXCEPT ![last] = DropLastChar(@)]

Render(in) ==
    IF in.kind = "null" THEN Null
    ELSE IF in.kind = "undefined" THEN Undefined
    ELSE Str(Concat(Pieces(in)))

----------------------------------------------------------------------------
(* Specification of the filter: one call on one diff *)

NoChanges == <<>>
NoInput == AbsentInput("undefined")

InitFilter ==
    /\ pc = "ready"
    /\ input \in FilterInputs
    /\ diff = Render(input)
    /\ englishTranslations = Undefined
    /\ filtered = Undefined
    /\ changes = NoChanges
    /\ text = Undefined
    /\ searchString = Undefined
    /\ regexPattern = Undefined
    /\ lineNumber = 0
    /\ nestedKey = Undefined
    /\ nestedValue = Undefined
    /\ NoRun

FilterCall ==
    /\ pc = "ready"
    /\ filtered' = filterDiffByIgnoredFiles(diff)
    /\ pc' = "filterDiffByIgnoredFiles"
    /\ UNCHANGED runVars
    /\ UNCHANGED <<diff, englishTranslations, input, changes,
                   text, searchString, regexPattern, lineNumber,
                   nestedKey, nestedValue>>

NextFilter == FilterCall

SpecFilter == InitFilter /\ [][NextFilter]_vars

----------------------------------------------------------------------------
(* Claims about the filter *)

RECURSIVE KeptPieces(_, _, _)
KeptPieces(in, pieces, i) ==
    IF i > Len(in.sections) THEN <<>>
    ELSE (IF Test(ignoredRegex, in.sections[i].path) THEN <<>> ELSE pieces[i + 1])
         \o KeptPieces(in, pieces, i + 1)

Contains(s, sub) == \E p \in 1..(Len(s) - Len(sub) + 1) : SubSeq(s, p, p + Len(sub) - 1) = sub

\* the ignore policy as stated: three exact names, the vendor directory, the
\* generated-code directory, PNG images and the CocoaPods lock file
OnStatedPolicy(path) ==
    \/ path \in { <<"p","a","c","k","a","g","e",".","j","s","o","n">>,
                  <<"p","a","c","k","a","g","e","-","l","o","c","k",".","j","s","o","n">>,
                  <<"y","a","r","n",".","l","o","c","k">> }
    \/ StartsWith(path, <<"n","o","d","e","_","m","o","d","u","l","e","s","/">>)
    \/ Contains(path, <<"n","i","t","r","o","g","e","n","/","g","e","n","e","r","a","t","e","d","/">>)
    \/ EndsWith(path, <<".","p","n","g">>)
    \/ EndsWith(path, <<"P","o","d","f","i","l","e",".","l","o","c","k">>)

\* C9: sections for .png files, Podfile.lock and paths under
\* nitrogen/generated/ are dropped like those for package.json,
\* package-lock.json, yarn.lock and node_modules/: no header of such a
\* section remains in the filtered diff.
C9_StatedPolicyDropped ==
    (pc = "filterDiffByIgnoredFiles" /\ input.kind = "text") =>
        \A i \in 1..Len(input.sections) :
            OnStatedPolicy(input.sections[i].path)
                => ~Contains(filtered.s, HeaderLine(input.sections[i]))

\* C12: when text precedes the first header, the filtered diff begins with
\* that text, whatever happens to the sections after it.
C12_PreamblePreserved ==
    ( /\ pc = "filterDiffByIgnoredFiles"
      /\ input.kind = "text"
      /\ input.preamble # <<>>
      /\ Len(input.sections) > 0 )
        => (filtered.t = "string" /\ StartsWith(filtered.s, input.preamble))

C12_Witness ==
    /\ pc = "filterDiffByIgnoredFiles"
    /\ input.kind = "text"
    /\ input.preamble # <<>>
    /\ Len(input.sections) = 2
    /\ \A i \in 1..2 : Test(ignoredRegex, input.sections[i].path)
    /\ filtered = Str(input.preamble)

Unquoted(sec) == [sec EXCEPT !.quoted = FALSE]

\* C14: a section with a quoted header stays in the filtered diff exactly when
\* the section with the unquoted header of the same path, filtered on its
\* own, stays.
C14_QuotedHeaderSameDecision ==
    (pc = "filterDiffByIgnoredFiles" /\ input.kind = "text") =>
        \A i \in 1..Len(input.sections) :
            input.sections[i].quoted =>
                ( Contains(filtered.s, HeaderLine(input.sections[i]))
                    <=> filterDiffByIgnoredFiles(Str(SectionText(Unquoted(input.sections[i]))))
                          # Str(<<>>) )

C14_Witness ==
    /\ pc = "filterDiffByIgnoredFiles"
    /\ input.kind = "text"
    /\ input.preamble = <<>>
    /\ Len(input.sections) = 2
    /\ input.eofNewline
    /\ input.sections[1].quoted /\ Test(ignoredRegex, input.sections[1].path)
    /\ input.sections[2].quoted /\ Contains(input.sections[2].path, <<" ">>)
    /\ filtered = Str(SectionText(input.sections[2]))

----------------------------------------------------------------------------
(* Diffs given to the extractor: lines, rendered to text *)

MaxDiffLines == 4

Header(path, quoted) ==
    [h |-> TRUE, kv |-> FALSE, path |-> path, key |-> <<>>, value |-> <<>>,
     english |-> <<>>, known |-> FALSE,
     text |-> HeaderLine([path |-> path, quoted |-> quoted])]

\* an added line  +<indent>"<key>": "<value>"<tail>; english is the string the
\* reference mapping holds for the key, when known
AddedKV(indent, key, value, tail, known, english) ==
    [h |-> FALSE, kv |-> TRUE, path |-> <<>>, key |-> key, value |-> value,
     english |-> english, known |-> known,
     text |-> <<"+">> \o indent \o <<"\"">> \o key \o <<"\"", ":", " ", "\"">> \o value
              \o <<"\"">> \o tail]

Other(line) ==
    [h |-> FALSE, kv |-> FALSE, path |-> <<>>, key |-> <<>>, value |-> <<>>,
     english |-> <<>>, known |-> FALSE, text |-> line]

ExtractHeaders ==
    { Header(<<"d","e",".","j","s","o","n">>, FALSE),
      Header(<<"e","n",".","j","s","o","n">>, FALSE),
      Header(<<"R","E","A","D","M","E",".","m","d">>, FALSE),
      Header(<<"z","h","-","C","N",".","j","s","o","n">>, TRUE) }

\* the lines of a section that the extractor has to tell apart
ExtractLines ==
    { AddedKV(<<" "," ">>, <<"k">>, <<"v">>, <<",">>, TRUE, <<"H","e","l","l","o">>),
      Other(<<"-"," "," ","\"","k","\"",":"," ","\"","w","\"",",">>),
      Other(<<" "," "," ","\"","k","\"",":"," ","\"","v","\"",",">>),
      Other(<<"@","@"," ","-","1"," ","+","1"," ","@","@">>),
      Other(<<"+"," "," ","\"","g","\"",":"," ","{">>),
      Other(<<"+","+","+"," ","b","/","d","e",".","j","s","o","n">>) }

\* added key/value lines by what the reference mapping holds for the key: a
\* string, nothing, the empty string, a string under a dotted path
LookupLines ==
    { AddedKV(<<" "," ">>, <<"k">>, <<"v">>, <<",">>, TRUE, <<"H","e","l","l","o">>),
      AddedKV(<<>>, <<"u">>, <<"x">>, <<>>, FALSE, <<>>),
      AddedKV(<<" ">>, <<"e">>, <<"y">>, <<",">>, TRUE, <<>>),
      AddedKV(<<" "," ">>, <<"a",".","b">>, <<"x",":"," ","\\","\"","y","\\","\"">>, <<",">>,
              TRUE, <<"N","e","s","t","e","d">>),
      Other(<<"-"," "," ","\"","k","\"",":"," ","\"","w","\"",",">>) }

\* the reference mapping en.json of the model
RefMapping ==
    Obj(<< Entry(<<"k">>, Str(<<"H","e","l","l","o">>)),
           Entry(<<"e">>, Str(<<>>)),
           Entry(<<"a">>, Obj(<< Entry(<<"b">>, Str(<<"N","e","s","t","e","d">>)) >>)),
           Entry(<<"g">>, Obj(<< Entry(<<"o","n","e">>, Str(<<"O","n","e">>)) >>)) >>)

\* a diff is empty or starts with a header line
ExtractInputs ==
    { [kind |-> "lines", items |-> items] :
        items \in { x \in SeqsUpTo(ExtractHeaders \cup ExtractLines, MaxDiffLines) :
                      x # <<>> => x[1].h } }

\* a diff of one translation file, for the lookup of the reference values
LookupInputs ==
    { [kind |-> "lines", items |-> <<Header(<<"d","e",".","j","s","o","n">>, FALSE)>> \o x] :
        x \in SeqsUpTo(LookupLines, MaxDiffLines - 1) }

RenderLines(in) == Str(Join([i \in 1..Len(in.items) |-> in.items[i].text], <<"\n">>))

----------------------------------------------------------------------------
(* Specification of the extractor: one call on one diff *)

InitExtract ==
    /\ pc = "ready"
    /\ input \in ExtractInputs
    /\ diff = RenderLines(input)
    /\ englishTranslations = RefMapping
    /\ filtered = Undefined
    /\ changes = NoChanges
    /\ text = Undefined
    /\ searchString = Undefined
    /\ regexPattern = Undefined
    /\ lineNumber = 0
    /\ nestedKey = Undefined
    /\ nestedValue = Undefined
    /\ NoRun

ParseCall ==
    /\ pc = "ready"
    /\ changes' = parseTranslationChangesFromDiff(diff, englishTranslations)
    /\ pc' = "parseTranslationChangesFromDiff"
    /\ UNCHANGED runVars
    /\ UNCHANGED <<diff, englishTranslations, input, filtered,
                   text, searchString, regexPattern, lineNumber,
                   nestedKey, nestedValue>>

NextExtract == ParseCall

SpecExtract == InitExtract /\ [][NextExtract]_vars

InitLookup ==
    /\ pc = "ready"
    /\ input \in LookupInputs
    /\ diff = RenderLines(input)
    /\ englishTranslations = RefMapping
    /\ filtered = Undefined
    /\ changes = NoChanges
    /\ text = Undefined
    /\ searchString = Undefined
    /\ regexPattern = Undefined
    /\ lineNumber = 0
    /\ nestedKey = Undefined
    /\ nestedValue = Undefined
    /\ NoRun

SpecLookup == InitLookup /\ [][NextExtract]_vars

----------------------------------------------------------------------------
(* Claims about the extractor *)

Parsed == pc = "parseTranslationChangesFromDiff" /\ changes.t = "array"

\* the header line that heads the section of line i
HeaderOf(items, i) ==
    items[CHOOSE j \in 1..i : items[j].h /\ \A m \in (j + 1)..i : ~items[m].h]

\* a section is retained when its declared destination path ends in .json and
\* is not the source-language file
Retained(path) ==
    /\ EndsWith(path, <<".","j","s","o","n">>)
    /\ path # <<"e","n",".","j","s","o","n">>

Qualifies(items, i) == items[i].kv /\ Retained(HeaderOf(items, i).path)

Projection(r) == [file |-> r.file, key |-> r.key, value |-> r.value, line |-> r.line]

ExpectedRecords(items) ==
    Concat([i \in 1..Len(items) |->
              IF Qualifies(items, i)
              THEN <<[file |-> HeaderOf(items, i).path,
                      key |-> items[i].key,
                      value |-> items[i].value,
                      line |-> Tail(items[i].text)]>>
              ELSE <<>>])

C3_RecordsOnlyForTranslationFiles ==
    Parsed =>
        /\ \A i \in 1..Len(changes.a) :
              /\ EndsWith(changes.a[i].file, <<".","j","s","o","n">>)
              /\ changes.a[i].file # <<"e","n",".","j","s","o","n">>
              /\ \E j \in 1..Len(input.items) :
                    input.items[j].h /\ input.items[j].path = changes.a[i].file
        /\ (\A j \in 1..Len(input.items) :
               input.items[j].h => ~Retained(input.items[j].path))
              => changes.a = <<>>

C3_Witness ==
    /\ Parsed
    /\ \E i, j \in 1..Len(input.items) :
          /\ input.items[i].kv
          /\ HeaderOf(input.items, i).path = <<"e","n",".","j","s","o","n">>
          /\ input.items[j].kv
          /\ HeaderOf(input.items, j).path = <<"R","E","A","D","M","E",".","m","d">>
    /\ changes.a = <<>>

\* the added key/value line that record i of the result comes from
SourceLine(items, i) ==
    LET q == {m \in 1..Len(items) : Qualifies(items, m)}
        nth == CHOOSE m \in q : Cardinality({x \in q : x <= m}) = i
    IN items[nth]

\* C4: englishValue is the sentinel exactly when the key is absent from the
\* reference mapping, and is the reference string (the empty string
\* included) whenever the key is present.
C4_EnglishValueSentinelIffAbsent ==
    (Parsed /\ Len(changes.a) = Len(ExpectedRecords(input.items))) =>
        \A i \in 1..Len(changes.a) :
            LET src == SourceLine(input.items, i) IN
            /\ (changes.a[i].englishValue = NoEnglishSource) <=> ~src.known
            /\ src.known => changes.a[i].englishValue = src.english

----------------------------------------------------------------------------
(* Diffs of one section, by the form of the header's paths *)

PathHeaders ==
    { Header(<<"d","e",".","j","s","o","n">>, FALSE),
      Header(<<"z","h","-","C","N",".","j","s","o","n">>, TRUE),
      Header(<<"s","u","b","/","f","r",".","j","s","o","n">>, FALSE),
      Header(<<"m","y"," ","d","i","r","/","d","e",".","j","s","o","n">>, TRUE),
      Header(<<"m","y"," ","d","i","r","/","d","e",".","j","s","o","n">>, FALSE),
      Header(<<"a"," ","b","/","d","e",".","j","s","o","n">>, TRUE) }

PathLines ==
    { AddedKV(<<" "," ">>, <<"k">>, <<"v">>, <<",">>, TRUE, <<"H","e","l","l","o">>),
      Other(<<"-"," "," ","\"","k","\"",":"," ","\"","w","\"",",">>) }

PathInputs ==
    { [kind |-> "lines", items |-> <<h>> \o x] :
        h \in PathHeaders, x \in SeqsUpTo(PathLines, MaxDiffLines - 1) }

InitPaths ==
    /\ pc = "ready"
    /\ input \in PathInputs
    /\ diff = RenderLines(input)
    /\ englishTranslations = RefMapping
    /\ filtered = Undefined
    /\ changes = NoChanges
    /\ text = Undefined
    /\ searchString = Undefined
    /\ regexPattern = Undefined
    /\ lineNumber = 0
    /\ nestedKey = Undefined
    /\ nestedValue = Undefined
    /\ NoRun

SpecPaths == InitPaths /\ [][NextExtract]_vars

\* C15: every record of a section whose header declares the destination path
\* p, ending in .json, in the quoted or the unquoted form, has file = p.
C15_FileIsDeclaredPath ==
    Parsed => \A i \in 1..Len(changes.a) : changes.a[i].file = input.items[1].path

----------------------------------------------------------------------------
(* Diffs of one translation file, by the shape of the added lines *)

\* indentation, trailing comma and carriage return, an empty value, a value
\* with a colon and escaped quotes, two pairs on one line, an empty key
RecordLines ==
    { AddedKV(<<" "," ">>, <<"k">>, <<"v">>, <<",">>, TRUE, <<"H","e","l","l","o">>),
      AddedKV(<<>>, <<"u">>, <<>>, <<>>, FALSE, <<>>),
      AddedKV(<<"\t">>, <<"a",".","b">>, <<"x",":"," ","\\","\"","y","\\","\"">>, <<",","\r">>,
              TRUE, <<"N","e","s","t","e","d">>),
      AddedKV(<<" ">>, <<"k">>, <<"v","\"",","," ","\"","n","\"",":"," ","\"","w">>, <<" ","}">>,
              TRUE, <<"H","e","l","l","o">>),
      Other(<<"+"," ","\"","\"",":"," ","\"","v","\"">>),
      Other(<<"-"," "," ","\"","k","\"",":"," ","\"","w","\"",",">>) }

RecordInputs ==
    { [kind |-> "lines", items |-> <<Header(<<"d","e",".","j","s","o","n">>, FALSE)>> \o x] :
        x \in SeqsUpTo(RecordLines, MaxDiffLines - 1) }

InitRecords ==
    /\ pc = "ready"
    /\ input \in RecordInputs
    /\ diff = RenderLines(input)
    /\ englishTranslations = RefMapping
    /\ filtered = Undefined
    /\ changes = NoChanges
    /\ text = Undefined
    /\ searchString = Undefined
    /\ regexPattern = Undefined
    /\ lineNumber = 0
    /\ nestedKey = Undefined
    /\ nestedValue = Undefined
    /\ NoRun

SpecRecords == InitRecords /\ [][NextExtract]_vars

\* every record has its source line
Aligned == Parsed /\ Len(changes.a) = Len(ExpectedRecords(input.items))

\* C16: a record's line is the added line without its leading '+', and its
\* key is not empty and stands, double-quoted, in that line.
C16_LineVerbatimKeyNonEmpty ==
    pc = "parseTranslationChangesFromDiff" =>
        /\ Aligned
        /\ \A i \in 1..Len(changes.a) :
              LET r == changes.a[i] IN
              /\ <<"+">> \o r.line = SourceLine(input.items, i).text
              /\ r.key # <<>>
              /\ Contains(r.line, <<"\"">> \o r.key \o <<"\"">>)

C16_Witness ==
    /\ Parsed
    /\ Len(changes.a) = 2
    /\ changes.a[1].line[1] = "\t" /\ changes.a[1].line[Len(changes.a[1].line)] = "\r"
    /\ changes.a[2].line[1] = " " /\ changes.a[2].line[Len(changes.a[2].line)] = "}"
    /\ \E i \in 1..Len(input.items) : input.items[i].text[2] = " " /\ input.items[i].text[3] = "\""
                                       /\ input.items[i].text[4] = "\""

\* positions of the double quotes of a line
Quotes(line) == {p \in 1..Len(line) : line[p] = "\""}

\* the text between the first double quote after the colon that follows the
\* key and the last double quote of the line
QuotedSpan(line, key) ==
    LET q1 == CHOOSE p \in Quotes(line) : \A q \in Quotes(line) : p <= q
        colon == q1 + Len(key) + 2
        after == {p \in Quotes(line) : p > colon}
        first == CHOOSE p \in after : \A q \in after : p <= q
        last == CHOOSE p \in Quotes(line) : \A q \in Quotes(line) : p >= q
    IN SubSeq(line, first + 1, last - 1)

\* C17: a record's value is the text between the first double quote after the
\* key's colon and the last double quote of the line.
C17_ValueThroughLastQuote ==
    pc = "parseTranslationChangesFromDiff" =>
        /\ Aligned
        /\ \A i \in 1..Len(changes.a) :
              changes.a[i].value
                = QuotedSpan(Tail(SourceLine(input.items, i).text), SourceLine(input.items, i).key)

C17_Witness ==
    /\ Parsed
    /\ Len(changes.a) = 3
    /\ changes.a[1].value = <<>>
    /\ changes.a[2].value = <<"x",":"," ","\\","\"","y","\\","\"">>
    /\ changes.a[3].value = <<"v","\"",","," ","\"","n","\"",":"," ","\"","w">>

----------------------------------------------------------------------------
(* Specification of the pattern compiler: one call on one snippet *)

MaxPatternLen == 3

PatternAlphabet == SpecialChars \cup {"a", " ", "\t", "\n", "\r", "\\"}

InitPattern ==
    /\ pc = "ready"
    /\ searchString \in { Str(x) : x \in SeqsUpTo(PatternAlphabet, MaxPatternLen) }
    /\ input = NoInput
    /\ diff = Undefined
    /\ englishTranslations = Undefined
    /\ filtered = Undefined
    /\ changes = NoChanges
    /\ text = Undefined
    /\ regexPattern = Undefined
    /\ lineNumber = 0
    /\ nestedKey = Undefined
    /\ nestedValue = Undefined
    /\ NoRun

ConvertCall ==
    /\ pc = "ready"
    /\ regexPattern' = Str(convertToRegexPattern(searchString.s))
    /\ pc' = "convertToRegexPattern"
    /\ UNCHANGED runVars
    /\ UNCHANGED <<diff, englishTranslations, input, filtered, changes,
                   text, searchString, lineNumber,
                   nestedKey, nestedValue>>

NextPattern == ConvertCall

SpecPattern == InitPattern /\ [][NextPattern]_vars

\* the characters the pattern compiler is to escape, and the whitespace it is
\* to collapse
EscapedCharacters ==
    {".", "*", "+", "?", "^", "=", "!", ":", "$", "{", "}", "(", ")", "|", "[", "]", "/", "-"}
BlankCharacters == {" ", "\t", "\n", "\r"}

\* one pass over the snippet: a backslash before each escaped character, one
\* \s+ for each maximal run of blanks, every other character as it is
OnePassPattern(s) ==
    Concat([i \in 1..Len(s) |->
              IF s[i] \in BlankCharacters
              THEN IF i > 1 /\ s[i - 1] \in BlankCharacters THEN <<>> ELSE <<"\\", "s", "+">>
              ELSE IF s[i] \in EscapedCharacters THEN <<"\\", s[i]>>
              ELSE <<s[i]>>])

\* C10: the compiled pattern is the snippet with each special character
\* prefixed by one backslash, each maximal whitespace run replaced by one
\* \s+ (not itself escaped) and every other character unchanged, in order.
C10_PatternEscapesAndCollapses ==
    pc = "convertToRegexPattern" => regexPattern = Str(OnePassPattern(searchString.s))

C10_Witness ==
    /\ pc = "convertToRegexPattern"
    /\ searchString.s = <<"+", " ", "\n">>
    /\ regexPattern = Str(<<"\\", "+", "\\", "s", "+">>)

----------------------------------------------------------------------------
(* Specification of the line locator: one call on one text and one snippet *)

MaxTextLen == 4
MaxSearchLen == 3

LocateAlphabet == {"a", "n", " ", "\n", "\\"}

InitLocate ==
    /\ pc = "ready"
    /\ text \in { Str(x) : x \in SeqsUpTo(LocateAlphabet, MaxTextLen) } \cup {Null, Undefined}
    /\ searchString \in { Str(x) : x \in SeqsUpTo(LocateAlphabet, MaxSearchLen) }
                        \cup {Null, Undefined}
    /\ input = NoInput
    /\ diff = Undefined
    /\ englishTranslations = Undefined
    /\ filtered = Undefined
    /\ changes = NoChanges
    /\ regexPattern = Undefined
    /\ lineNumber = 0
    /\ nestedKey = Undefined
    /\ nestedValue = Undefined
    /\ NoRun

LocateCall ==
    /\ pc = "ready"
    /\ lineNumber' = getLineNumber(text, searchString)
    /\ regexPattern' = IF Falsy(text) \/ Falsy(searchString) THEN Undefined
                       ELSE Str(convertToRegexPattern(searchString.s))
    /\ pc' = "getLineNumber"
    /\ UNCHANGED runVars
    /\ UNCHANGED <<diff, englishTranslations, input, filtered, changes, text, searchString,
                   nestedKey, nestedValue>>

NextLocate == LocateCall

SpecLocate == InitLocate /\ [][NextLocate]_vars

----------------------------------------------------------------------------
(* Claims about the line locator *)

Located == pc = "getLineNumber" /\ ~Falsy(text) /\ ~Falsy(searchString)

\* the 1-based number of the line that holds position p of t
LineOf(t, p) == 1 + Cardinality({q \in 1..(p - 1) : t[q] = "\n"})
LinesSpanned(s) == 1 + Cardinality({q \in 1..Len(s) : s[q] = "\n"})

\* positions where s occurs in t character for character
VerbatimStarts(t, s) ==
    {p \in 1..(Len(t) - Len(s) + 1) : SubSeq(t, p, p + Len(s) - 1) = s}

\* s with each whitespace run written as one blank
Normalized(s) ==
    Concat([i \in 1..Len(s) |->
              IF s[i] \in Whitespace
              THEN IF i > 1 /\ s[i - 1] \in Whitespace THEN <<>> ELSE <<" ">>
              ELSE <<s[i]>>])

\* regions <<i, j>> of t that spell s up to the length of whitespace runs
Regions(t, s) ==
    {r \in (1..Len(t)) \X (1..Len(t)) :
        r[1] <= r[2] /\ Normalized(SubSeq(t, r[1], r[2])) = Normalized(s)}

\* the last line of region r of t: the line it starts on, plus the lines it
\* spans, minus one
LastLineOf(t, r) == LineOf(t, r[1]) + LinesSpanned(SubSeq(t, r[1], r[2])) - 1

\* C5: when s occurs in t starting on line n and spanning k lines, and no
\* region of t spelling s ends before that occurrence does, the locator
\* returns n + k - 1.
C5_LastLineOfOccurrence ==
    Located =>
        LET starts == VerbatimStarts(text.s, searchString.s) IN
        \A p \in starts :
            ( /\ \A q \in starts : p <= q
              /\ \A r \in Regions(text.s, searchString.s) : r[2] >= p + Len(searchString.s) - 1 )
            => (lineNumber = Number(LineOf(text.s, p) + LinesSpanned(searchString.s) - 1))

\* C6: when t holds two or more occurrences of s, the locator returns the
\* last line of an occurrence that starts where the leftmost one starts.
C6_FirstOccurrenceOnly ==
    Located =>
        LET regions == Regions(text.s, searchString.s) IN
        (\E r1, r2 \in regions : r1[1] # r2[1])
            => (\E r \in regions :
                  /\ \A o \in regions : r[1] <= o[1]
                  /\ lineNumber = Number(LastLineOf(text.s, r)))

\* C7: when a region of t spells s up to the length of its whitespace runs,
\* the locator does not return -1 and returns the last line of such a region.
C7_WhitespaceInsensitive ==
    Located =>
        LET regions == Regions(text.s, searchString.s) IN
        (regions # {}) =>
            ( /\ lineNumber # Number(-1)
              /\ \E r \in regions : lineNumber = Number(LastLineOf(text.s, r)) )

\* C8: the locator returns -1 when either argument is empty, null or
\* undefined, and when no region of t spells s.
C8_MinusOneWhenAbsent ==
    ( /\ pc = "getLineNumber"
      /\ \/ Falsy(text)
         \/ Falsy(searchString)
         \/ Regions(text.s, searchString.s) = {} )
        => lineNumber = Number(-1)

\* s without its whitespace characters
StripWhitespace(s) == Concat([i \in 1..Len(s) |-> IF s[i] \in Whitespace THEN <<>> ELSE <<s[i]>>])

\* the match of new RegExp(regexPattern) in the text, when the pattern compiles
CompiledMatch ==
    LET parsed == ParseItems(regexPattern.s, 1, <<>>) IN
    IF parsed.ok THEN Exec(RegExp(parsed.items, 0, FALSE), text.s, 1) ELSE NoMatch

\* C11: the region of the text matched by the pattern compiled from the
\* snippet spells, whitespace removed, exactly the snippet with its
\* whitespace removed.
C11_MatchSpellsSnippet ==
    (Located /\ CompiledMatch.ok) =>
        StripWhitespace(Matched(CompiledMatch, text.s)) = StripWhitespace(searchString.s)

----------------------------------------------------------------------------
(* Specification of the reference lookup: one call on one mapping and key *)

MaxKeySegments == 3

KeySegments ==
    { <<"k">>, <<"e">>, <<"a">>, <<"b">>, <<"c">>, <<"g">>, <<"x">>, <<>>,
      ProtoName, ConstructorName }

\* a mapping with the flat key a.b beside the nested path a -> b, a nested
\* group under a dotted path, and a pluralization group whose leaves need
\* escaping
PluralMapping ==
    Obj(<< Entry(<<"k">>, Str(<<"H","e","l","l","o">>)),
           Entry(<<"a",".","b">>, Str(<<"F","l","a","t">>)),
           Entry(<<"a">>,
                 Obj(<< Entry(<<"b">>, Str(<<"N","e","s","t","e","d">>)),
                        Entry(<<"c">>, Obj(<< Entry(<<"d">>, Str(<<"D","\"","p","\"">>)) >>)) >>)),
           Entry(<<"g">>,
                 Obj(<< Entry(<<"o","n","e">>, Str(<<"1"," ","\\","n">>)),
                        Entry(<<"o","t","h","e","r">>, Str(<<"{","n","}","\n","x">>)) >>)) >>)

Mappings == { RefMapping, PluralMapping, Null, Undefined }

KeyInputs ==
    { [kind |-> "key", segments |-> segs] :
        segs \in SeqsUpTo(KeySegments, MaxKeySegments) \ {<<>>} }

InitNested ==
    /\ pc = "ready"
    /\ input \in KeyInputs
    /\ nestedKey = Str(Join(input.segments, <<".">>))
    /\ englishTranslations \in Mappings
    /\ diff = Undefined
    /\ filtered = Undefined
    /\ changes = NoChanges
    /\ text = Undefined
    /\ searchString = Undefined
    /\ regexPattern = Undefined
    /\ lineNumber = 0
    /\ nestedValue = Undefined
    /\ NoRun

NestedCall ==
    /\ pc = "ready"
    /\ nestedValue' = getNestedValue(englishTranslations, nestedKey.s)
    /\ pc' = "getNestedValue"
    /\ UNCHANGED runVars
    /\ UNCHANGED <<diff, englishTranslations, input, filtered, changes,
                   text, searchString, regexPattern, lineNumber, nestedKey>>

NextNested == NestedCall

SpecNested == InitNested /\ [][NextNested]_vars

----------------------------------------------------------------------------
(* Claims about the reference lookup *)

Looked == pc = "getNestedValue" /\ englishTranslations.t = "object"

OwnValue(obj, name) == obj.o[CHOOSE i \in 1..Len(obj.o) : obj.o[i].k = name].v

\* the value at the end of the path of own entries, when every segment is there
RECURSIVE OwnAt(_, _, _)
OwnAt(v, segs, i) ==
    IF i > Len(segs) THEN [found |-> TRUE, v |-> v]
    ELSE IF v.t = "object" /\ HasOwn(v, segs[i]) THEN OwnAt(OwnValue(v, segs[i]), segs, i + 1)
    ELSE [found |-> FALSE, v |-> Undefined]

\* C18: when the mapping has an entry named by the whole key, the value of
\* that entry is returned (a string as it is, anything else serialized),
\* also when the dotted path of the key leads to another value.
C18_FlatKeyFirst ==
    (Looked /\ HasOwn(englishTranslations, nestedKey.s)) =>
        LET flat == OwnValue(englishTranslations, nestedKey.s) IN
        nestedValue = IF flat.t = "string" THEN flat ELSE JSONstringify(flat)

C18_Witness ==
    /\ Looked
    /\ Len(input.segments) = 2
    /\ HasOwn(englishTranslations, nestedKey.s)
    /\ OwnAt(englishTranslations, input.segments, 1).found
    /\ OwnAt(englishTranslations, input.segments, 1).v
         # OwnValue(englishTranslations, nestedKey.s)
    /\ nestedValue = OwnValue(englishTranslations, nestedKey.s)

\* C19: the lookup gives undefined for a null or undefined mapping, and for a
\* key that is no entry of the mapping when a segment of its path is missing
\* or the value before its last segment is not an object.
C19_UndefinedWhenPathBroken ==
    pc = "getNestedValue" =>
        /\ englishTranslations.t \in {"null", "undefined"} => nestedValue = Undefined
        /\ ( /\ englishTranslations.t = "object"
             /\ ~HasOwn(englishTranslations, nestedKey.s)
             /\ ~OwnAt(englishTranslations, input.segments, 1).found )
              => nestedValue = Undefined

\* JSON.parse of the text of a string, null or an object of such values
JsonFail == [ok |-> FALSE, v |-> Undefined, next |-> 0]

\* the number of backslashes that stand right before position p, after lo
BackslashesBefore(s, lo, p) ==
    CHOOSE n \in 0..(p - lo - 1) :
        /\ \A j \in 1..n : s[p - j] = "\\"
        /\ (n = p - lo - 1 \/ s[p - n - 1] # "\\")

Unescaped(c) ==
    IF c = "n" THEN "\n" ELSE IF c = "t" THEN "\t" ELSE IF c = "r" THEN "\r" ELSE c

\* a string literal that opens at pos
JsonString(s, pos) ==
    IF pos > Len(s) \/ s[pos] # "\"" THEN JsonFail
    ELSE LET closing == {p \in (pos + 1)..Len(s) :
                            s[p] = "\"" /\ BackslashesBefore(s, pos, p) % 2 = 0}
         IN IF closing = {} THEN JsonFail
            ELSE LET q == CHOOSE p \in closing : \A o \in closing : p <= o
                     chars == [i \in 1..(q - pos - 1) |->
                                 LET p == pos + i IN
                                 IF BackslashesBefore(s, pos, p) % 2 = 1
                                 THEN <<Unescaped(s[p])>>
                                 ELSE IF s[p] = "\\" THEN <<>> ELSE <<s[p]>>]
                 IN [ok |-> TRUE, v |-> Str(Concat(chars)), next |-> q + 1]

RECURSIVE JsonValue(_, _), JsonMembers(_, _, _)
JsonValue(s, pos) ==
    IF pos > Len(s) THEN JsonFail
    ELSE IF s[pos] = "\"" THEN JsonString(s, pos)
    ELSE IF s[pos] = "{"
         THEN IF pos + 1 <= Len(s) /\ s[pos + 1] = "}"
              THEN [ok |-> TRUE, v |-> Obj(<<>>), next |-> pos + 2]
              ELSE JsonMembers(s, pos + 1, <<>>)
    ELSE IF SubSeq(s, pos, pos + 3) = <<"n","u","l","l">>
         THEN [ok |-> TRUE, v |-> Null, next |-> pos + 4]
    ELSE JsonFail

\* "name":value members up to the closing brace
JsonMembers(s, pos, acc) ==
    LET name == JsonString(s, pos) IN
    IF ~name.ok \/ name.next > Len(s) \/ s[name.next] # ":" THEN JsonFail
    ELSE LET val == JsonValue(s, name.next + 1) IN
         IF ~val.ok \/ val.next > Len(s) THEN JsonFail
         ELSE LET entries == Append(acc, Entry(name.v.s, val.v)) IN
              IF s[val.next] = "}" THEN [ok |-> TRUE, v |-> Obj(entries), next |-> val.next + 1]
              ELSE IF s[val.next] = "," THEN JsonMembers(s, val.next + 1, entries)
              ELSE JsonFail

JSONparse(s) ==
    LET r == JsonValue(s, 1) IN
    IF r.ok /\ r.next = Len(s) + 1 THEN [ok |-> TRUE, v |-> r.v] ELSE [ok |-> FALSE, v |-> Undefined]

\* the entry named by the whole key, or else the end of its path
Resolved ==
    IF HasOwn(englishTranslations, nestedKey.s)
    THEN [found |-> TRUE, v |-> OwnValue(englishTranslations, nestedKey.s)]
    ELSE OwnAt(englishTranslations, input.segments, 1)

\* C20: a resolved string is returned as it is; a resolved group is returned
\* as a string that parses back to the group.
C20_StringVerbatimGroupSerialized ==
    (Looked /\ Resolved.found) =>
        IF Resolved.v.t = "string" THEN nestedValue = Resolved.v
        ELSE /\ nestedValue.t = "string"
             /\ JSONparse(nestedValue.s) = [ok |-> TRUE, v |-> Resolved.v]

C20_Witness ==
    /\ Looked
    /\ Resolved.found
    /\ Resolved.v.t = "object"
    /\ \E i \in 1..Len(Resolved.v.o) :
          /\ Resolved.v.o[i].v.t = "string"
          /\ \E j \in 1..Len(Resolved.v.o[i].v.s) : Resolved.v.o[i].v.s[j] \in {"\"", "\\", "\n"}
    /\ nestedValue.t = "string"
    /\ JSONparse(nestedValue.s).v = Resolved.v

----------------------------------------------------------------------------
(* ai-review.js, requestReview: the filter, then the extractor on its result *)

\* a section of one added key/value line under a header; trailing is what
\* follows the destination path on the header line
ReviewSection(path, quoted, trailing) ==
    [path |-> path, quoted |-> quoted, trailing |-> trailing,
     body |-> <<"+"," "," ","\"","k","\"",":"," ","\"","v","\"",",","\n">>]

ReviewSections ==
    { ReviewSection(<<"d","e",".","j","s","o","n">>, FALSE, <<>>),
      ReviewSection(<<"z","h","-","C","N",".","j","s","o","n">>, TRUE, <<>>),
      ReviewSection(<<"p","a","c","k","a","g","e",".","j","s","o","n">>, FALSE, <<>>),
      ReviewSection(<<"p","a","c","k","a","g","e",".","j","s","o","n">>, FALSE, <<" ">>),
      ReviewSection(<<"a"," ","b","/","p","a","c","k","a","g","e",".","j","s","o","n">>,
                    TRUE, <<>>),
      ReviewSection(<<"m","y"," ","d","i","r","/","d","e",".","j","s","o","n">>, FALSE, <<>>),
      ReviewSection(<<"y","a","r","n",".","l","o","c","k">>, FALSE, <<>>) }

ReviewHeaderLine(sec) == HeaderLine(sec) \o sec.trailing

ReviewInputs ==
    { [kind |-> "text", sections |-> secs] : secs \in SeqsUpTo(ReviewSections, MaxSections) }
    \cup { [kind |-> k, sections |-> <<>>] : k \in {"null", "undefined"} }

RenderReview(in) ==
    IF in.kind = "null" THEN Null
    ELSE IF in.kind = "undefined" THEN Undefined
    ELSE Str(Concat([i \in 1..Len(in.sections) |->
                       ReviewHeaderLine(in.sections[i]) \o <<"\n">> \o in.sections[i].body]))

InitReview ==
    /\ pc = "ready"
    /\ input \in ReviewInputs
    /\ diff = RenderReview(input)
    /\ englishTranslations \in {RefMapping, Null, Undefined}
    /\ filtered = Undefined
    /\ changes = NoChanges
    /\ text = Undefined
    /\ searchString = Undefined
    /\ regexPattern = Undefined
    /\ lineNumber = 0
    /\ nestedKey = Undefined
    /\ nestedValue = Undefined
    /\ NoRun

\* const filteredDiff = filterDiffByIgnoredFiles(diff); ...
\* const changedTranslations = parseTranslationChangesFromDiff(filteredDiff, englishTranslations)
requestReview ==
    /\ pc = "ready"
    /\ filtered' = filterDiffByIgnoredFiles(diff)
    /\ changes' = parseTranslationChangesFromDiff(filtered', englishTranslations)
    /\ pc' = "requestReview"
    /\ UNCHANGED runVars
    /\ UNCHANGED <<diff, englishTranslations, input, text, searchString, regexPattern,
                   lineNumber, nestedKey, nestedValue>>

NextReview == requestReview

SpecReview == InitReview /\ [][NextReview]_vars

\* C21: on every value the filter returns, null, undefined and the empty
\* string included, and with any reference mapping, the extractor returns a
\* list: empty when there is nothing to extract, and with the sentinel as
\* englishValue when the mapping is null or undefined.
C21_ExtractorNeverRaises ==
    pc = "requestReview" =>
        /\ changes.t = "array"
        /\ (filtered \in {Null, Undefined, Str(<<>>)}) => changes.a = <<>>
        /\ (englishTranslations \in {Null, Undefined}) =>
              \A i \in 1..Len(changes.a) : changes.a[i].englishValue = NoEnglishSource

\* the file path the extractor derives from a header line
DerivedFile(headerLine) ==
    LET firstLine == SubSeq(headerLine, 11, Len(headerLine))
        fileMatch == Exec(fileMatchRegex, firstLine, 1)
    IN IF fileMatch.ok THEN Str(Group(fileMatch, firstLine, 1)) ELSE Null

\* the path the filter tests for a header line
TestedPath(headerLine) ==
    LET matches == headerMatches(headerLine, 0)
    IN IF Len(matches) = 1 THEN Str(matches[1].path) ELSE Null

\* C25: for every header line of a .json file the path the filter tests is
\* the file the extractor derives, and no record extracted from the filtered
\* diff has a file the ignore policy matches.
C25_FilterAndExtractorAgree ==
    (pc = "requestReview" /\ input.kind = "text") =>
        /\ \A i \in 1..Len(input.sections) :
              TestedPath(ReviewHeaderLine(input.sections[i]))
                = DerivedFile(ReviewHeaderLine(input.sections[i]))
              \/ ~EndsWith(input.sections[i].path, <<".","j","s","o","n">>)
        /\ changes.t = "array" =>
              \A i \in 1..Len(changes.a) : ~Test(ignoredRegex, changes.a[i].file)

----------------------------------------------------------------------------
(* Further claims about the line locator *)

\* C22: for every non-empty text and non-empty snippet, a backslash anywhere
\* in the snippet included, the locator returns -1 or a line number and
\* never raises.
C22_LocatorNeverRaises ==
    ( /\ pc = "getLineNumber"
      /\ text.t = "string" /\ text.s # <<>>
      /\ searchString.t = "string" /\ searchString.s # <<>> )
        => /\ lineNumber.t = "number"
           /\ (lineNumber.n = -1 \/ lineNumber.n \in 1..LinesSpanned(text.s))

----------------------------------------------------------------------------
(* Diffs with text before the first header *)

PreambleVocabulary ==
    { Header(<<"d","e",".","j","s","o","n">>, FALSE),
      Header(<<"R","E","A","D","M","E",".","m","d">>, FALSE),
      AddedKV(<<" "," ">>, <<"k">>, <<"v">>, <<",">>, TRUE, <<"H","e","l","l","o">>),
      Other(<<"n","o","t","e">>),
      Other(<<"s","e","e"," ","b","/","d","e",".","j","s","o","n">>),
      Other(<<"+","+","+"," ","b","/","d","e",".","j","s","o","n">>) }

PreambleInputs ==
    { [kind |-> "lines", items |-> items] :
        items \in SeqsUpTo(PreambleVocabulary, MaxDiffLines) }

InitPreamble ==
    /\ pc = "ready"
    /\ input \in PreambleInputs
    /\ diff = RenderLines(input)
    /\ englishTranslations = RefMapping
    /\ filtered = Undefined
    /\ changes = NoChanges
    /\ text = Undefined
    /\ searchString = Undefined
    /\ regexPattern = Undefined
    /\ lineNumber = 0
    /\ nestedKey = Undefined
    /\ nestedValue = Undefined
    /\ NoRun

SpecPreamble == InitPreamble /\ [][NextExtract]_vars

\* line i stands under a header line
Headed(items, i) == \E j \in 1..i : items[j].h

ExpectedHeadedRecords(items) ==
    Concat([i \in 1..Len(items) |->
              IF Headed(items, i) /\ Qualifies(items, i)
              THEN <<[file |-> HeaderOf(items, i).path,
                      key |-> items[i].key,
                      value |-> items[i].value,
                      line |-> Tail(items[i].text)]>>
              ELSE <<>>])

\* C23: the records are those of the added key/value lines that stand under
\* a header with a .json destination path; the text before the first header
\* and the sections of other headers give none and change none.
C23_RecordsOnlyFromHeadedSections ==
    pc = "parseTranslationChangesFromDiff" =>
        /\ changes.t = "array"
        /\ [i \in 1..Len(changes.a) |-> Projection(changes.a[i])]
             = ExpectedHeadedRecords(input.items)


----------------------------------------------------------------------------
(* The name list of the ignore policy: paths equal to a listed name and
   paths one character away from it *)

NameSections ==
    { Section(<<"p","a","c","k","a","g","e",".","j","s","o","n">>, FALSE, HunkBody),
      Section(<<"p","a","c","k","a","g","e","-","l","o","c","k",".","j","s","o","n">>, FALSE, HunkBody),
      Section(<<"y","a","r","n",".","l","o","c","k">>, FALSE, HunkBody),
      Section(<<"p","a","c","k","a","g","e","X","j","s","o","n">>, FALSE, HunkBody),
      Section(<<"y","a","r","n","-","l","o","c","k">>, FALSE, HunkBody),
      Section(<<"s","r","c","/","p","a","c","k","a","g","e",".","j","s","o","n">>, FALSE, HunkBody),
      Section(<<"n","o","d","e","_","m","o","d","u","l","e","s","/","x",".","j","s">>, FALSE, HunkBody),
      Section(<<"s","r","c","/","a",".","t","s">>, FALSE, HunkBody) }

NameInputs == { TextInput(<<>>, secs, TRUE) : secs \in SeqsUpTo(NameSections, MaxSections) }

InitNames ==
    /\ pc = "ready"
    /\ input \in NameInputs
    /\ diff = Render(input)
    /\ englishTranslations = Undefined
    /\ filtered = Undefined
    /\ changes = NoChanges
    /\ text = Undefined
    /\ searchString = Undefined
    /\ regexPattern = Undefined
    /\ lineNumber = 0
    /\ nestedKey = Undefined
    /\ nestedValue = Undefined
    /\ NoRun

SpecNames == InitNames /\ [][NextFilter]_vars

ListedName(path) == \E i \in 1..Len(IGNORED_FILES) : path = IGNORED_FILES[i]

RECURSIVE KeptByName(_, _)
KeptByName(secs, i) ==
    IF i > Len(secs) THEN <<>>
    ELSE (IF ListedName(secs[i].path)
             \/ StartsWith(secs[i].path, <<"n","o","d","e","_","m","o","d","u","l","e","s","/">>)
          THEN <<>> ELSE SectionText(secs[i]))
         \o KeptByName(secs, i + 1)

\* C26: the name list is an exact match: the filtered diff keeps every
\* section whose destination path is not character-for-character one of
\* package.json, package-lock.json, yarn.lock and does not start with
\* node_modules/, and drops the others.
C26_NameListExactMatch ==
    (pc = "filterDiffByIgnoredFiles" /\ Len(input.sections) > 0)
        => filtered = Str(KeptByName(input.sections, 1))


----------------------------------------------------------------------------
(* utils.js as a module: the regular expression objects it keeps between
   calls.  ignoredRegex is created once when the module is loaded; every
   other regular expression is a literal evaluated inside a call. *)

\* new RegExp(`...`): no flags argument
ignoredRegexFlags_global == {"g"}

ignoredRegexFlags == {}

\* what a search with the g flag leaves behind: lastIndex at the end of the
\* match, or 0 when there is none
searched(m) ==
    IF m.ok THEN [ok |-> TRUE, lastIndex |-> m.end - 1]
    ELSE [ok |-> FALSE, lastIndex |-> 0]

\* RegExp.prototype.test on a regular expression object whose lastIndex is li:
\* without the g flag the search starts at 0 and lastIndex is left alone, with
\* it the search starts at lastIndex
RegExpTest(rx, flags, s, li) ==
    IF "g" \notin flags THEN [ok |-> Test(rx, s), lastIndex |-> li]
    ELSE IF li > Len(s) THEN [ok |-> FALSE, lastIndex |-> 0]
    ELSE searched(Exec(rx, s, li + 1))

\* result += slice, in front of what the later turns of the loop give
resultWith(slice, rest) ==
    [result |-> slice \o rest.result, lastIndex |-> rest.lastIndex]

\* the for loop over matches, carrying the lastIndex of ignoredRegex: turn i
\* tests the path, then keeps or skips the slice
RECURSIVE keptSlicesAt(_, _, _, _)
RECURSIVE keptSliceAt(_, _, _, _)
keptSliceAt(d, matches, i, t) ==
    resultWith(IF ~t.ok
               THEN Slice(d, matches[i].index,
                          IF i + 1 <= Len(matches) THEN matches[i + 1].index ELSE Len(d))
               ELSE <<>>,
               keptSlicesAt(d, matches, i + 1, t.lastIndex))

keptSlicesAt(d, matches, i, li) ==
    IF i > Len(matches) THEN [result |-> <<>>, lastIndex |-> li]
    ELSE keptSliceAt(d, matches, i,
                     RegExpTest(ignoredRegex, ignoredRegexFlags, matches[i].path, li))

\* return result: the string built by the loop
returned(r) == [result |-> Str(r.result), lastIndex |-> r.lastIndex]

\* the part of filterDiffByIgnoredFiles after the headers were collected
filteredAt(d, matches, li) ==
    IF Len(matches) = 0 THEN [result |-> d, lastIndex |-> li]
    ELSE returned(resultWith(IF matches[1].index > 0 THEN Slice(d.s, 0, matches[1].index)
                             ELSE <<>>,
                             keptSlicesAt(d.s, matches, 1, li)))

\* filterDiffByIgnoredFiles in a module whose ignoredRegex has lastIndex li:
\* headerRegex is a new object with lastIndex 0 in every call
filterDiffByIgnoredFilesAt(d, li) ==
    IF Falsy(d) THEN [result |-> d, lastIndex |-> li]
    ELSE filteredAt(d, headerMatches(d.s, 0), li)

----------------------------------------------------------------------------
(* Specification of the module in use: any sequence of calls of the four
   operations.  A call is entered with its arguments (pc is its name) and
   returns (pc is "ready" again). *)

MaxCalls == 3

DeSection == ReviewSection(<<"d","e",".","j","s","o","n">>, FALSE, <<>>)
YarnSection == ReviewSection(<<"y","a","r","n",".","l","o","c","k">>, FALSE, <<>>)

CallDiffs ==
    { RenderReview([kind |-> "text", sections |-> secs]) :
        secs \in { <<YarnSection>>, <<YarnSection, DeSection>>, <<DeSection>> } }

CallTexts == { Str(<<"a","\n","n">>) }
CallSnippets == { Str(<<"n">>), Str(<<"a">>) }
CallKeys == { Str(<<"k">>), Str(<<"a",".","b">>) }

Call(op, args) == [op |-> op, args |-> args]

Calls ==
    { Call("filterDiffByIgnoredFiles", <<d>>) : d \in CallDiffs }
    \cup { Call("parseTranslationChangesFromDiff", <<d, RefMapping>>) : d \in CallDiffs }
    \cup { Call("getLineNumber", <<t, s>>) : t \in CallTexts, s \in CallSnippets }
    \cup { Call("getNestedValue", <<RefMapping, k>>) : k \in CallKeys }

InitCalls ==
    /\ pc = "ready"
    /\ input = NoInput
    /\ diff = Undefined
    /\ englishTranslations = Undefined
    /\ filtered = Undefined
    /\ changes = NoChanges
    /\ text = Undefined
    /\ searchString = Undefined
    /\ regexPattern = Undefined
    /\ lineNumber = 0
    /\ nestedKey = Undefined
    /\ nestedValue = Undefined
    /\ NoRun

callArguments == <<diff, englishTranslations, text, searchString, nestedKey>>

\* a caller enters one of the operations with its arguments
Invoke ==
    /\ pc = "ready"
    /\ Len(history) < MaxCalls
    /\ \E c \in Calls :
          /\ pc' = c.op
          /\ diff' = IF c.op \in {"filterDiffByIgnoredFiles", "parseTranslationChangesFromDiff"}
                     THEN c.args[1] ELSE diff
          /\ englishTranslations' =
                IF c.op = "parseTranslationChangesFromDiff" THEN c.args[2]
                ELSE IF c.op = "getNestedValue" THEN c.args[1]
                ELSE englishTranslations
          /\ text' = IF c.op = "getLineNumber" THEN c.args[1] ELSE text
          /\ searchString' = IF c.op = "getLineNumber" THEN c.args[2] ELSE searchString
          /\ nestedKey' = IF c.op = "getNestedValue" THEN c.args[2] ELSE nestedKey
    /\ UNCHANGED <<input, filtered, changes, regexPattern, lineNumber, nestedValue,
                   ignoredLastIndex, history, issues, botComments, pending, cleanupFailed,
                   requests, cursor>>

\* the call has returned r.result and left ignoredRegex.lastIndex at r.lastIndex
filterReturned(r) ==
    /\ filtered' = r.result
    /\ ignoredLastIndex' = r.lastIndex
    /\ history' = Append(history, [op |-> pc, args |-> <<diff>>, result |-> r.result])

filterReturn ==
    /\ pc = "filterDiffByIgnoredFiles"
    /\ filterReturned(filterDiffByIgnoredFilesAt(diff, ignoredLastIndex))
    /\ pc' = "ready"
    /\ UNCHANGED callArguments
    /\ UNCHANGED <<input, changes, regexPattern, lineNumber, nestedValue,
                   issues, botComments, pending, cleanupFailed, requests, cursor>>

parseReturn ==
    /\ pc = "parseTranslationChangesFromDiff"
    /\ changes' = parseTranslationChangesFromDiff(diff, englishTranslations)
    /\ history' = Append(history, [op |-> pc, args |-> <<diff, englishTranslations>>,
                                   result |-> changes'])
    /\ pc' = "ready"
    /\ UNCHANGED callArguments
    /\ UNCHANGED <<input, filtered, regexPattern, lineNumber, nestedValue, ignoredLastIndex,
                   issues, botComments, pending, cleanupFailed, requests, cursor>>

locateReturn ==
    /\ pc = "getLineNumber"
    /\ lineNumber' = getLineNumber(text, searchString)
    /\ regexPattern' = IF Falsy(text) \/ Falsy(searchString) THEN Undefined
                       ELSE Str(convertToRegexPattern(searchString.s))
    /\ history' = Append(history, [op |-> pc, args |-> <<text, searchString>>,
                                   result |-> lineNumber'])
    /\ pc' = "ready"
    /\ UNCHANGED callArguments
    /\ UNCHANGED <<input, filtered, changes, nestedValue, ignoredLastIndex,
                   issues, botComments, pending, cleanupFailed, requests, cursor>>

nestedReturn ==
    /\ pc = "getNestedValue"
    /\ nestedValue' = getNestedValue(englishTranslations, nestedKey.s)
    /\ history' = Append(history, [op |-> pc, args |-> <<englishTranslations, nestedKey>>,
                                   result |-> nestedValue'])
    /\ pc' = "ready"
    /\ UNCHANGED callArguments
    /\ UNCHANGED <<input, filtered, changes, regexPattern, lineNumber, ignoredLastIndex,
                   issues, botComments, pending, cleanupFailed, requests, cursor>>

NextCalls ==
    \/ Invoke
    \/ filterReturn
    \/ parseReturn
    \/ locateReturn
    \/ nestedReturn

SpecCalls == InitCalls /\ [][NextCalls]_vars

\* C24: the operations keep no state between calls: in every sequence of
\* calls, two calls of the same operation with the same arguments return the
\* same result, the match position of the shared ignoredRegex is 0 between
\* and after calls, and a call leaves its diff, text, snippet, key and
\* reference-mapping arguments as they were given.
C24_NoStateBetweenCalls ==
    /\ [](/\ ignoredLastIndex = 0
          /\ \A i, j \in 1..Len(history) :
                (history[i].op = history[j].op /\ history[i].args = history[j].args)
                    => history[i].result = history[j].result)
    /\ [][pc # "ready" => UNCHANGED callArguments]_vars

C24_Witness ==
    /\ pc = "ready"
    /\ Len(history) = 3
    /\ history[1].op = "filterDiffByIgnoredFiles"
    /\ history[2].op = "getLineNumber"
    /\ history[3] = history[1]
    /\ history[1].args[1] = RenderReview([kind |-> "text", sections |-> <<YarnSection>>])
    /\ history[1].result = Str(<<>>)


----------------------------------------------------------------------------
(* ai-review.js, getReviewAndSendToGitHub: the run after requestReview has
   resolved with a parsed review.  Every awaited request is a step of its own
   that resolves or is rejected; pc names the statement the run is at. *)

MaxIssues == 2
MaxOldComments == 2

\* the files of the diff as fetched at the head commit
fileContents == << [path |-> <<"d","e",".","j","s","o","n">>, content |-> Str(<<"a","\n","n">>)] >>

\* an issue of the review as parsed: no lineNumber yet, comment as written
Issue(filePath, lineContent) ==
    [filePath |-> filePath, lineContent |-> Str(lineContent),
     lineNumber |-> Undefined, appended |-> FALSE]

\* issues whose line is found, is not found, makes the locator raise, and
\* whose file was not fetched
IssueKinds ==
    { Issue(<<"d","e",".","j","s","o","n">>, <<"n">>),
      Issue(<<"d","e",".","j","s","o","n">>, <<"z">>),
      Issue(<<"d","e",".","j","s","o","n">>, <<"\\">>),
      Issue(<<"f","r",".","j","s","o","n">>, <<"n">>) }

InitRun ==
    /\ pc = "pulls.get"
    /\ issues \in SeqsUpTo(IssueKinds, MaxIssues)
    /\ \E n, m \in 0..MaxOldComments :
          botComments = [review |-> 1..n, issue |-> (MaxOldComments + 1)..(MaxOldComments + m)]
    /\ pending = {}
    /\ cleanupFailed = FALSE
    /\ requests = <<>>
    /\ cursor = 1
    /\ ignoredLastIndex = 0
    /\ history = <<>>
    /\ input = NoInput
    /\ diff = Undefined
    /\ englishTranslations = Undefined
    /\ filtered = Undefined
    /\ changes = NoChanges
    /\ text = Undefined
    /\ searchString = Undefined
    /\ regexPattern = Undefined
    /\ lineNumber = 0
    /\ nestedKey = Undefined
    /\ nestedValue = Undefined

utilVars == <<diff, englishTranslations, input, filtered, changes, text, searchString,
              regexPattern, lineNumber, nestedKey, nestedValue, ignoredLastIndex, history>>

\* const { data: pr } = await octokit.pulls.get(...): a rejection leaves the
\* .then callback for the .catch
pullsGet ==
    /\ pc = "pulls.get"
    /\ \E ok \in BOOLEAN : pc' = IF ok THEN "forEach" ELSE "catch"
    /\ UNCHANGED <<issues, botComments, pending, cleanupFailed, requests, cursor>>
    /\ UNCHANGED utilVars

\* fileContents.find((file) => file.path === filePath), or Undefined
fileContentOf(filePath) ==
    IF \E k \in 1..Len(fileContents) : fileContents[k].path = filePath
    THEN fileContents[CHOOSE k \in 1..Len(fileContents) :
                         /\ fileContents[k].path = filePath
                         /\ \A j \in 1..(k - 1) : fileContents[j].path # filePath]
    ELSE Undefined

\* element.lineNumber = lineNumber, after the comment was extended when the
\* line is -1; nothing is assigned when getLineNumber raised
withLineNumber(element, n) ==
    IF n.t = "throw" THEN element
    ELSE [element EXCEPT !.lineNumber = n, !.appended = (n = Number(-1))]

\* the body of review.issues?.forEach for one element
located(element) ==
    IF fileContentOf(element.filePath) = Undefined THEN element
    ELSE withLineNumber(element,
                        getLineNumber(fileContentOf(element.filePath).content,
                                      element.lineContent))

\* the outcome of the body for each kind of issue
locatedIssue == [element \in IssueKinds |-> located(element)]

forEachIssue ==
    /\ pc = "forEach"
    /\ issues' = [i \in 1..Len(issues) |-> locatedIssue[issues[i]]]
    /\ pc' = "listReviewComments"
    /\ UNCHANGED <<botComments, pending, cleanupFailed, requests, cursor>>
    /\ UNCHANGED utilVars

\* deleteCommentsByUser: a rejected list request is caught and ends the cleanup
listReviewComments ==
    /\ pc = "listReviewComments"
    /\ \E ok \in BOOLEAN :
          /\ pc' = IF ok THEN "listComments" ELSE "createComments"
          /\ cleanupFailed' = (cleanupFailed \/ ~ok)
    /\ UNCHANGED <<issues, botComments, pending, requests, cursor>>
    /\ UNCHANGED utilVars

\* after the second list the delete requests of the review comments are all
\* issued at once
listComments ==
    /\ pc = "listComments"
    /\ \E ok \in BOOLEAN :
          /\ pc' = IF ok THEN "deleteReviewComment" ELSE "createComments"
          /\ cleanupFailed' = (cleanupFailed \/ ~ok)
          /\ pending' = IF ok THEN botComments.review ELSE pending
    /\ UNCHANGED <<issues, botComments, requests, cursor>>
    /\ UNCHANGED utilVars

\* one delete request in flight resolves or is rejected
settleDelete ==
    /\ \E id \in pending, ok \in BOOLEAN :
          /\ pending' = pending \ {id}
          /\ cleanupFailed' = (cleanupFailed \/ ~ok)
    /\ UNCHANGED <<pc, issues, botComments, requests, cursor>>
    /\ UNCHANGED utilVars

\* await without waiting for the requests in flight
AllSettled_notAwaited == TRUE

\* await Promise.allSettled(...)
AllSettled == pending = {}

\* the review comments are settled: the delete requests of the issue comments
\* are issued
reviewCommentsSettled ==
    /\ pc = "deleteReviewComment"
    /\ AllSettled
    /\ pending' = pending \cup botComments.issue
    /\ pc' = "deleteComment"
    /\ UNCHANGED <<issues, botComments, cleanupFailed, requests, cursor>>
    /\ UNCHANGED utilVars

issueCommentsSettled ==
    /\ pc = "deleteComment"
    /\ AllSettled
    /\ pc' = "createComments"
    /\ UNCHANGED <<issues, botComments, pending, cleanupFailed, requests, cursor>>
    /\ UNCHANGED utilVars

\* Object.entries(commentsByFile) flattened: the issues file by file, the
\* files in the order of their first issue
commentsByFile ==
    LET n == Len(issues)
        first(i) == CHOOSE j \in 1..i :
                       /\ issues[j].filePath = issues[i].filePath
                       /\ \A k \in 1..(j - 1) : issues[k].filePath # issues[i].filePath
        before(j, i) == first(j) < first(i) \/ (first(j) = first(i) /\ j < i)
    IN [k \in 1..n |-> CHOOSE i \in 1..n : Cardinality({j \in 1..n : before(j, i)}) = k - 1]

Request(api, issue, line, appended, ok) ==
    [api |-> api, issue |-> issue, line |-> line, appended |-> appended, ok |-> ok]

\* lineNumber === -1: a general comment; its rejection leaves the try block
createComment ==
    /\ pc = "createComments"
    /\ cursor <= Len(issues)
    /\ LET i == commentsByFile[cursor] IN
          /\ issues[i].lineNumber = Number(-1)
          /\ \E ok \in BOOLEAN :
                /\ requests' = Append(requests, Request("issues.createComment", i, Undefined,
                                                        issues[i].appended, ok))
                /\ pc' = IF ok THEN pc ELSE "setFailed"
                /\ cursor' = IF ok THEN cursor + 1 ELSE cursor
    /\ UNCHANGED <<issues, botComments, pending, cleanupFailed>>
    /\ UNCHANGED utilVars

\* else: an inline comment with line: lineNumber; its rejection is caught
createReviewComment ==
    /\ pc = "createComments"
    /\ cursor <= Len(issues)
    /\ LET i == commentsByFile[cursor] IN
          /\ issues[i].lineNumber # Number(-1)
          /\ \E ok \in BOOLEAN :
                /\ requests' = Append(requests, Request("pulls.createReviewComment", i,
                                                        issues[i].lineNumber,
                                                        issues[i].appended, ok))
                /\ pc' = IF ok THEN pc ELSE "fallback"
                /\ cursor' = IF ok THEN cursor + 1 ELSE cursor
    /\ UNCHANGED <<issues, botComments, pending, cleanupFailed>>
    /\ UNCHANGED utilVars

\* the general comment in the catch of the inline comment
createFallbackComment ==
    /\ pc = "fallback"
    /\ LET i == commentsByFile[cursor] IN
          \E ok \in BOOLEAN :
             /\ requests' = Append(requests, Request("issues.createComment", i, Undefined,
                                                     issues[i].appended, ok))
             /\ pc' = IF ok THEN "createComments" ELSE "setFailed"
             /\ cursor' = IF ok THEN cursor + 1 ELSE cursor
    /\ UNCHANGED <<issues, botComments, pending, cleanupFailed>>
    /\ UNCHANGED utilVars

\* the summary comment: issue 0 of the log
createSummaryComment ==
    /\ pc = "createComments"
    /\ cursor > Len(issues)
    /\ \E ok \in BOOLEAN :
          /\ requests' = Append(requests, Request("issues.createComment", 0, Undefined,
                                                  FALSE, ok))
          /\ pc' = IF ok THEN "done" ELSE "setFailed"
    /\ UNCHANGED <<issues, botComments, pending, cleanupFailed, cursor>>
    /\ UNCHANGED utilVars

NextRun ==
    \/ pullsGet
    \/ forEachIssue
    \/ listReviewComments
    \/ listComments
    \/ settleDelete
    \/ reviewCommentsSettled
    \/ issueCommentsSettled
    \/ createComment
    \/ createReviewComment
    \/ createFallbackComment
    \/ createSummaryComment

SpecRun == InitRun /\ [][NextRun]_vars

\* Every request settles and the event loop then resumes the awaiting
\* function, so a run that can take a step takes one.
SpecRunFair == SpecRun /\ WF_vars(NextRun)


----------------------------------------------------------------------------
(* Claims about the review run *)

InlineRequests(i) ==
    { k \in 1..Len(requests) :
        requests[k].api = "pulls.createReviewComment" /\ requests[k].issue = i }
GeneralRequests(i) ==
    { k \in 1..Len(requests) :
        requests[k].api = "issues.createComment" /\ requests[k].issue = i }

\* what getLineNumber gives for issue i, when its file content was fetched
Fetched(i) == \E k \in 1..Len(fileContents) : fileContents[k].path = issues[i].filePath
LineOfIssue(i) ==
    getLineNumber(
        fileContents[CHOOSE k \in 1..Len(fileContents) :
                        fileContents[k].path = issues[i].filePath].content,
        issues[i].lineContent)

RunEnded == pc \in {"done", "setFailed"}

\* C27: when the run has ended, every issue whose file content was fetched
\* and whose line the locator reports as -1 has been requested as a general
\* comment with the unmatched line text appended and never as an inline
\* comment; every such issue with a line found has been requested as an
\* inline comment at exactly that line, and as a general comment too when
\* that request was rejected.
C27_AnchoredOrGeneral ==
    RunEnded =>
        \A i \in 1..Len(issues) :
            (Fetched(i) /\ LineOfIssue(i).t = "number") =>
                IF LineOfIssue(i) = Number(-1)
                THEN /\ InlineRequests(i) = {}
                     /\ \E k \in GeneralRequests(i) : requests[k].appended
                ELSE /\ \E k \in InlineRequests(i) : requests[k].line = LineOfIssue(i)
                     /\ \A k \in InlineRequests(i) :
                           /\ requests[k].line = LineOfIssue(i)
                           /\ ~requests[k].ok => GeneralRequests(i) # {}

\* no request for a general comment of an issue has been rejected
NoGeneralCommentRejected ==
    \A k \in 1..Len(requests) :
        (requests[k].api = "issues.createComment" /\ requests[k].issue # 0) => requests[k].ok

\* C28: every inline comment is requested with a positive line number that
\* getLineNumber returned for the issue; an issue without a computed line
\* (file not fetched, or the locator raised) is never requested as an inline
\* comment.
C28_InlineOnlyAtComputedLine ==
    \A k \in 1..Len(requests) :
        requests[k].api = "pulls.createReviewComment" =>
            /\ Fetched(requests[k].issue)
            /\ requests[k].line.t = "number"
            /\ requests[k].line.n > 0
            /\ requests[k].line = LineOfIssue(requests[k].issue)

LineComputed(i) == Fetched(i) /\ LineOfIssue(i).t = "number"

\* C29: no create request is made while a delete request of the cleanup is
\* in flight; the summary is the last request of the log and follows a
\* request for every issue; and after a rejected list or delete request the
\* run still goes on to its first create request.
C29_CleanupThenCommentsThenSummary ==
    /\ [](requests # <<>> => pending = {})
    /\ [](\A k \in 1..Len(requests) :
             requests[k].issue = 0 =>
                 /\ k = Len(requests)
                 /\ \A i \in 1..Len(issues) : \E j \in 1..(k - 1) : requests[j].issue = i)
    /\ (cleanupFailed ~> requests # <<>>)

C29_Witness ==
    /\ pc = "done"
    /\ cleanupFailed
    /\ Cardinality(botComments.review) = 2
    /\ botComments.issue # {}
    /\ Len(issues) = 2
    /\ Len(requests) = 3

SummaryRequests == { k \in 1..Len(requests) : requests[k].issue = 0 }

\* C30: once the review is in hand and the pull request was read, the run
\* requests the summary comment eventually, and never more than once,
\* whatever the outcome of the per-issue requests.
C30_SummaryEventuallyOnce ==
    /\ [](Cardinality(SummaryRequests) <= 1)
    /\ (pc = "forEach" ~> Cardinality(SummaryRequests) = 1)

====
